---- MODULE Spec2Model ----
(***************************************************************************)
(* Model of the AI-interview backend core: the key/model registry          *)
(* (aiKeysManager.js), the credential vault (cryptoUtils), the capability  *)
(* resolver (modelValidator), and the analyze-answer turn of the           *)
(* interview orchestrator (server.js).                                     *)
(***************************************************************************)
EXTENDS Integers, Sequences, FiniteSets, TLC

(***************************************************************************)
(* Bounds of the model.                                                    *)
(***************************************************************************)
\* number of distinct initialisation vectors crypto.randomBytes can return
MaxIV == 2
\* number of requests that can be in flight at the same time
MaxInFlight == 2

(***************************************************************************)
(* Small generic helpers.                                                  *)
(***************************************************************************)
\* Array.prototype.filter keeping the elements whose id is not `id`
RECURSIVE FilterOutId(_, _)
FilterOutId(s, id) ==
  IF s = <<>> THEN <<>>
  ELSE IF Head(s).id = id THEN FilterOutId(Tail(s), id)
       ELSE <<Head(s)>> \o FilterOutId(Tail(s), id)

\* Array.prototype.filter keeping the elements whose id is not in `ids`
RECURSIVE FilterOutIds(_, _)
FilterOutIds(s, ids) ==
  IF s = <<>> THEN <<>>
  ELSE IF Head(s).id \in ids THEN FilterOutIds(Tail(s), ids)
       ELSE <<Head(s)>> \o FilterOutIds(Tail(s), ids)

\* models.some(m => m.id === id)
SomeId(s, id) == \E i \in 1..Len(s) : s[i].id = id

Ids(s) == {s[i].id : i \in 1..Len(s)}

(***************************************************************************)
(* aiKeysManager.js: the built-in catalog and the provider table.          *)
(***************************************************************************)
Model(i, n, p) == [id |-> i, name |-> n, provider |-> p]

\* the array literal bound to DEFAULT_MODELS when the module is loaded
DefaultModelsLiteral ==
  << Model("gpt-5", "GPT-5", "openai"),
     Model("gpt-5.1", "GPT-5.1", "openai"),
     Model("gpt-5-mini", "GPT-5 Mini", "openai"),
     Model("gpt-4o-mini", "GPT-4o Mini", "openai"),
     Model("gpt-4o", "GPT-4o", "openai"),
     Model("gpt-4-turbo", "GPT-4 Turbo", "openai"),
     Model("gpt-3.5-turbo", "GPT-3.5 Turbo", "openai"),
     Model("claude-3-5-sonnet-20241022", "Claude 3.5 Sonnet", "anthropic"),
     Model("claude-3-opus-20240229", "Claude 3 Opus", "anthropic"),
     Model("claude-3-sonnet-20240229", "Claude 3 Sonnet", "anthropic"),
     Model("claude-3-haiku-20240307", "Claude 3 Haiku", "anthropic"),
     Model("gemini-2.0-flash-exp", "Gemini 2.0 Flash (Experimental)", "google"),
     Model("gemini-1.5-pro", "Gemini 1.5 Pro", "google"),
     Model("gemini-1.5-flash", "Gemini 1.5 Flash", "google"),
     Model("gemini-pro", "Gemini Pro", "google"),
     Model("grok-beta", "Grok Beta", "xai") >>

\* Object.keys(PROVIDER_INFO)
PROVIDER_INFO == {"openai", "anthropic", "google", "xai"}

\* the literal 'gpt-5-mini' used as the fallback active model
FallbackModel == "gpt-5-mini"

(***************************************************************************)
(* cryptoUtils: AES-256-GCM is modelled as a one-time pad over a small     *)
(* ring together with an ideal authentication tag (the tag is a function   *)
(* of the key, the IV and the ciphertext that no other triple shares).     *)
(* The three fields of a bundle are hex strings: what is stored is the     *)
(* text, and what the cipher works on is the bytes the text decodes to.    *)
(***************************************************************************)
\* size of the ring the modelled cipher works in
CipherModulus == 5

DEFAULT_MASTER_KEY == 3

\* the plaintext keys a caller can submit, as numbers of the cipher ring
PlainCode(text) ==
  CASE text = "sk-A" -> 1
    [] text = "sk-B" -> 2
    [] OTHER -> 0

PlainText(code) ==
  CASE code = 1 -> "sk-A"
    [] code = 2 -> "sk-B"
    [] OTHER -> ""

\* buf.toString('hex'): the lower-case hex text of the bytes
ToHex(bytes) == [bytes |-> bytes, upper |-> FALSE]

\* Buffer.from(text, 'hex') and update(text, 'hex', ...): hex digits are
\* read without regard to case, so "AB" and "ab" are the same byte
FromHex(text) == text.bytes

\* crypto.scryptSync(masterKey, 'salt', 32) followed by the GCM key stream
KeyStream(masterKey, iv) == (2 * masterKey + iv + 1) % CipherModulus

\* the GCM authentication tag over the ciphertext
AuthTag(masterKey, iv, encrypted) == <<masterKey, iv, encrypted>>

encrypt(text, masterKey, iv) ==
  LET enc == (PlainCode(text) + KeyStream(masterKey, iv)) % CipherModulus
  IN [iv |-> ToHex(iv), authTag |-> ToHex(AuthTag(masterKey, iv, enc)),
      encrypted |-> ToHex(enc)]

\* decrypt deriving its key from the default master key whatever it is given
decryptDefaultKey(data, masterKey) ==
  LET iv == FromHex(data.iv)
      authTag == FromHex(data.authTag)
      encrypted == FromHex(data.encrypted)
  IN IF authTag # AuthTag(DEFAULT_MASTER_KEY, iv, encrypted)
     THEN [ok |-> FALSE, text |-> ""]
     ELSE [ok |-> TRUE,
           text |-> PlainText((encrypted + CipherModulus
                               - KeyStream(DEFAULT_MASTER_KEY, iv))
                              % CipherModulus)]

\* decrypt without setAuthTag: the ciphertext is decoded unauthenticated
decryptNoTag(data, masterKey) ==
  LET iv == FromHex(data.iv)
      encrypted == FromHex(data.encrypted)
  IN [ok |-> TRUE,
      text |-> PlainText((encrypted + CipherModulus
                          - KeyStream(masterKey, iv)) % CipherModulus)]

\* decrypt: [ok |-> FALSE] stands for the thrown 'Failed to decrypt data'
decrypt(data, masterKey) ==
  LET iv == FromHex(data.iv)
      authTag == FromHex(data.authTag)
      encrypted == FromHex(data.encrypted)
  IN IF authTag # AuthTag(masterKey, iv, encrypted)
     THEN [ok |-> FALSE, text |-> ""]
     ELSE [ok |-> TRUE,
           text |-> PlainText((encrypted + CipherModulus
                               - KeyStream(masterKey, iv)) % CipherModulus)]

\* JSON.stringify of the bundle: a well-formed string that carries it
encryptForStorage(text, masterKey, iv) ==
  [wellFormed |-> TRUE, bundle |-> encrypt(text, masterKey, iv)]

\* JSON.parse of the stored string, then decrypt
decryptFromStorage(str, masterKey) ==
  IF ~str.wellFormed THEN [ok |-> FALSE, text |-> ""]
  ELSE decrypt(str.bundle, masterKey)

(***************************************************************************)
(* State.                                                                  *)
(***************************************************************************)
VARIABLES
  file,            \* content of ai-keys.json (KEYS_DB_PATH)
  DEFAULT_MODELS,  \* the in-memory array the module constant is bound to
  last,            \* the last registry call and what it returned or threw
  pending,         \* registry requests issued and not yet handled
  log,             \* registry requests handled, oldest first
  boot,            \* the store the process found when it started
  turn,            \* the analyze-answer request being processed
  calc             \* the last application of a pure function of the core

vars == <<file, DEFAULT_MODELS, last, pending, log, boot, turn, calc>>

(***************************************************************************)
(* aiKeysManager.js: the persisted record.                                 *)
(*                                                                         *)
(* file.exists    existsSync(KEYS_DB_PATH)                                 *)
(* file.readable  readFileSync + JSON.parse succeed                        *)
(* file.hasKeys / file.hasModels  the record has a keys / models field     *)
(* file.activeModel  "" when the record has no activeModel                 *)
(***************************************************************************)
NoKeys == [p \in {} |-> [wellFormed |-> TRUE, bundle |-> encrypt("", 0, 0)]]

NoFile ==
  [exists |-> FALSE, readable |-> FALSE, hasKeys |-> FALSE, keys |-> NoKeys,
   hasModels |-> FALSE, models |-> <<>>, activeModel |-> ""]

\* a file that exists and cannot be parsed
CorruptFile == [NoFile EXCEPT !.exists = TRUE]

\* the record written by JSON.stringify(data); undefined fields are dropped
Persisted(db) ==
  [exists |-> TRUE, readable |-> TRUE, hasKeys |-> db.hasKeys, keys |-> db.keys,
   hasModels |-> db.hasModels, models |-> db.models,
   activeModel |-> db.activeModel]

\* loadKeysDB: the parsed record, or the default structure whose models
\* field is the DEFAULT_MODELS array itself (aliased)
loadKeysDB(f, defaults) ==
  IF f.exists /\ f.readable
  THEN [hasKeys |-> f.hasKeys, keys |-> f.keys, hasModels |-> f.hasModels,
        models |-> f.models, activeModel |-> f.activeModel, aliased |-> FALSE]
  ELSE [hasKeys |-> TRUE, keys |-> NoKeys, hasModels |-> TRUE,
        models |-> defaults, activeModel |-> FallbackModel, aliased |-> TRUE]

\* saveKeysDB: the file after writeFileSync, which either succeeds or throws
saveKeysDB(f, db, writeOk) == IF writeOk THEN Persisted(db) ELSE f

\* db.activeModel || 'gpt-5-mini'
ActiveOrFallback(a) == IF a = "" THEN FallbackModel ELSE a

\* getAllKeys returning the keys object next to the flags
getAllKeysWithKeys(f, defaults) ==
  LET db == loadKeysDB(f, defaults)
      keys == IF db.hasKeys THEN db.keys ELSE NoKeys
      dbModels == IF db.hasModels THEN db.models ELSE <<>>
      defaultModelIds == Ids(defaults)
      customModels == FilterOutIds(dbModels, defaultModelIds)
  IN [models |-> defaults \o customModels,
      activeModel |-> ActiveOrFallback(db.activeModel),
      hasKeys |-> DOMAIN keys # {},
      providerKeys |-> [p \in PROVIDER_INFO |-> p \in DOMAIN keys],
      keys |-> keys]

\* getAllKeys
getAllKeys(f, defaults) ==
  LET db == loadKeysDB(f, defaults)
      keys == IF db.hasKeys THEN db.keys ELSE NoKeys
      dbModels == IF db.hasModels THEN db.models ELSE <<>>
      defaultModelIds == Ids(defaults)
      customModels == FilterOutIds(dbModels, defaultModelIds)
  IN [models |-> defaults \o customModels,
      activeModel |-> ActiveOrFallback(db.activeModel),
      hasKeys |-> DOMAIN keys # {},
      providerKeys |-> [p \in PROVIDER_INFO |-> p \in DOMAIN keys]]

\* getActiveModel
getActiveModel(f, defaults) ==
  ActiveOrFallback(loadKeysDB(f, defaults).activeModel)

\* getApiKey without the try/catch around decryptFromStorage
getApiKeyUncaught(f, defaults, provider) ==
  LET db == loadKeysDB(f, defaults)
  IN IF ~db.hasKeys \/ provider \notin DOMAIN db.keys THEN ""
     ELSE LET r == decryptFromStorage(db.keys[provider], DEFAULT_MASTER_KEY)
          IN IF r.ok THEN r.text ELSE "throw:Failed to decrypt from storage"

\* getApiKey: "" stands for null
getApiKey(f, defaults, provider) ==
  LET db == loadKeysDB(f, defaults)
  IN IF ~db.hasKeys \/ provider \notin DOMAIN db.keys THEN ""
     ELSE LET r == decryptFromStorage(db.keys[provider], DEFAULT_MASTER_KEY)
          IN IF r.ok THEN r.text ELSE ""

(***************************************************************************)
(* The mutations.  Each yields the file and the DEFAULT_MODELS array after *)
(* the call, and what the call returned ("true", "false") or threw.        *)
(***************************************************************************)
Outcome(f, d, r) == [file |-> f, defaults |-> d, result |-> r]

\* saveApiKey writing a keys object that holds the new entry alone
saveApiKeyFresh(f, defaults, provider, apiKey, iv, writeOk) ==
  IF apiKey = "" \/ provider = ""
  THEN Outcome(f, defaults, "throw:Provider and API key are required")
  ELSE LET db == loadKeysDB(f, defaults)
           encrypted == encryptForStorage(apiKey, DEFAULT_MASTER_KEY, iv)
           db2 == [db EXCEPT !.hasKeys = TRUE,
                             !.keys = [p \in {provider} |-> encrypted]]
       IN IF writeOk
          THEN Outcome(saveKeysDB(f, db2, writeOk), defaults, "true")
          ELSE Outcome(f, defaults, "throw:Failed to save keys database")

saveApiKey(f, defaults, provider, apiKey, iv, writeOk) ==
  IF apiKey = "" \/ provider = ""
  THEN Outcome(f, defaults, "throw:Provider and API key are required")
  ELSE LET db == loadKeysDB(f, defaults)
           keys == IF db.hasKeys THEN db.keys ELSE NoKeys
           encrypted == encryptForStorage(apiKey, DEFAULT_MASTER_KEY, iv)
           newKeys == [p \in DOMAIN keys \cup {provider} |->
                         IF p = provider THEN encrypted ELSE keys[p]]
           db2 == [db EXCEPT !.hasKeys = TRUE, !.keys = newKeys]
       IN IF writeOk
          THEN Outcome(saveKeysDB(f, db2, writeOk), defaults, "true")
          ELSE Outcome(f, defaults, "throw:Failed to save keys database")

deleteApiKey(f, defaults, provider, writeOk) ==
  LET db == loadKeysDB(f, defaults)
  IN IF db.hasKeys /\ provider \in DOMAIN db.keys
     THEN LET db2 == [db EXCEPT !.keys =
                        [p \in DOMAIN db.keys \ {provider} |-> db.keys[p]]]
          IN Outcome(saveKeysDB(f, db2, writeOk), defaults,
                     IF writeOk THEN "true" ELSE "false")
     ELSE Outcome(f, defaults, "true")

setActiveModel(f, defaults, modelId, writeOk) ==
  LET db == loadKeysDB(f, defaults)
      models == IF db.hasModels THEN db.models ELSE defaults
  IN IF ~SomeId(models, modelId)
     THEN Outcome(f, defaults, "throw:Model not found")
     ELSE Outcome(saveKeysDB(f, [db EXCEPT !.activeModel = modelId], writeOk),
                  defaults, IF writeOk THEN "true" ELSE "false")

\* addModel: db.models.push(model) appends in place, so when db.models is
\* the DEFAULT_MODELS array (default structure, or `db.models = DEFAULT_MODELS`
\* for a record without models) the push changes DEFAULT_MODELS as well
addModel(f, defaults, model, writeOk) ==
  IF model.id = "" \/ model.name = "" \/ model.provider = ""
  THEN Outcome(f, defaults, "throw:Model must have id, name, and provider")
  ELSE LET db == loadKeysDB(f, defaults)
           aliased == db.aliased \/ ~db.hasModels
           models == IF db.hasModels THEN db.models ELSE defaults
       IN IF SomeId(models, model.id)
          THEN Outcome(f, defaults, "throw:Model already exists")
          ELSE LET pushed == Append(models, model)
                   db2 == [db EXCEPT !.hasModels = TRUE, !.models = pushed]
               IN Outcome(saveKeysDB(f, db2, writeOk),
                          IF aliased THEN pushed ELSE defaults,
                          IF writeOk THEN "true" ELSE "false")

deleteModel(f, defaults, modelId, writeOk) ==
  LET db == loadKeysDB(f, defaults)
  IN IF SomeId(defaults, modelId)
     THEN Outcome(f, defaults, "throw:Cannot delete default model")
     ELSE IF db.hasModels
          THEN LET db2 == [db EXCEPT
                             !.models = FilterOutId(db.models, modelId),
                             !.activeModel = IF db.activeModel = modelId
                                             THEN FallbackModel
                                             ELSE db.activeModel]
               IN Outcome(saveKeysDB(f, db2, writeOk), defaults,
                          IF writeOk THEN "true" ELSE "false")
          ELSE Outcome(f, defaults, "true")

\* server.js, the routes of the registry mutations: each calls the registry
\* function inside try, does not look at what it returns, and answers
\* { success: true }; the catch block answers 500
RouteResponse(result) ==
  IF result \in {"true", "false"}
  THEN [status |-> 200, success |-> TRUE]
  ELSE [status |-> 500, success |-> FALSE]

(***************************************************************************)
(* Inputs of the registry calls.                                           *)
(***************************************************************************)
\* two built-in ids and two ids no catalog knows
ModelIdInputs == {"gpt-5-mini", "gpt-5.1", "custom-a", "custom-b"}

\* request bodies of POST /api/ai-models; "" is a missing field
ModelInputs ==
  {Model(i, "Custom", "openai") : i \in ModelIdInputs}
    \cup {Model("", "Custom", "openai"), Model("custom-a", "", "openai"),
          Model("custom-a", "Custom", "")}

\* a provider of PROVIDER_INFO, a provider outside it, and a missing one
ProviderInputs == {"openai", "foo", ""}

ApiKeyInputs == {"sk-A", "sk-B", ""}

IVs == 0..(MaxIV - 1)

(***************************************************************************)
(* The stores the process can find at start-up.                            *)
(***************************************************************************)
\* a record that has no models field, such as {"keys": {}}
RecordWithoutModels ==
  [exists |-> TRUE, readable |-> TRUE, hasKeys |-> TRUE, keys |-> NoKeys,
   hasModels |-> FALSE, models |-> <<>>, activeModel |-> ""]

\* a record written when the built-in catalog did not yet list gpt-5.1: the
\* case getAllKeys merges DEFAULT_MODELS into db.models for
LegacyRecord ==
  [exists |-> TRUE, readable |-> TRUE, hasKeys |-> TRUE, keys |-> NoKeys,
   hasModels |-> TRUE, models |-> FilterOutId(DefaultModelsLiteral, "gpt-5.1"),
   activeModel |-> "gpt-4o-mini"]

StoreInits == {NoFile, CorruptFile, RecordWithoutModels, LegacyRecord}

NoModel == Model("", "", "")

NoCall ==
  [op |-> "none", id |-> "", provider |-> "", apiKey |-> "", model |-> NoModel,
   writeOk |-> TRUE, result |-> "", pre |-> NoFile,
   preDefaults |-> DefaultModelsLiteral]

(***************************************************************************)
(* Registry calls.  Every exported function of aiKeysManager.js is         *)
(* synchronous, so a call is one step.                                     *)
(***************************************************************************)
CallSaveApiKey(providers, apiKeys) ==
  \E provider \in providers, apiKey \in apiKeys, iv \in IVs,
     writeOk \in BOOLEAN :
    LET o == saveApiKey(file, DEFAULT_MODELS, provider, apiKey, iv, writeOk)
    IN /\ file' = o.file
       /\ DEFAULT_MODELS' = o.defaults
       /\ last' = [NoCall EXCEPT !.op = "saveApiKey", !.provider = provider,
                     !.apiKey = apiKey, !.writeOk = writeOk,
                     !.result = o.result, !.pre = file,
                     !.preDefaults = DEFAULT_MODELS]
       /\ UNCHANGED <<pending, log, boot, turn, calc>>

CallDeleteApiKey(providers) ==
  \E provider \in providers \ {""}, writeOk \in BOOLEAN :
    LET o == deleteApiKey(file, DEFAULT_MODELS, provider, writeOk)
    IN /\ file' = o.file
       /\ DEFAULT_MODELS' = o.defaults
       /\ last' = [NoCall EXCEPT !.op = "deleteApiKey", !.provider = provider,
                     !.writeOk = writeOk, !.result = o.result, !.pre = file,
                     !.preDefaults = DEFAULT_MODELS]
       /\ UNCHANGED <<pending, log, boot, turn, calc>>

CallSetActiveModel(modelIds) ==
  \E modelId \in modelIds, writeOk \in BOOLEAN :
    LET o == setActiveModel(file, DEFAULT_MODELS, modelId, writeOk)
    IN /\ file' = o.file
       /\ DEFAULT_MODELS' = o.defaults
       /\ last' = [NoCall EXCEPT !.op = "setActiveModel", !.id = modelId,
                     !.writeOk = writeOk, !.result = o.result, !.pre = file,
                     !.preDefaults = DEFAULT_MODELS]
       /\ UNCHANGED <<pending, log, boot, turn, calc>>

CallAddModel(models) ==
  \E model \in models, writeOk \in BOOLEAN :
    LET o == addModel(file, DEFAULT_MODELS, model, writeOk)
    IN /\ file' = o.file
       /\ DEFAULT_MODELS' = o.defaults
       /\ last' = [NoCall EXCEPT !.op = "addModel", !.id = model.id,
                     !.model = model, !.writeOk = writeOk,
                     !.result = o.result, !.pre = file,
                     !.preDefaults = DEFAULT_MODELS]
       /\ UNCHANGED <<pending, log, boot, turn, calc>>

CallDeleteModel(modelIds) ==
  \E modelId \in modelIds, writeOk \in BOOLEAN :
    LET o == deleteModel(file, DEFAULT_MODELS, modelId, writeOk)
    IN /\ file' = o.file
       /\ DEFAULT_MODELS' = o.defaults
       /\ last' = [NoCall EXCEPT !.op = "deleteModel", !.id = modelId,
                     !.writeOk = writeOk, !.result = o.result, !.pre = file,
                     !.preDefaults = DEFAULT_MODELS]
       /\ UNCHANGED <<pending, log, boot, turn, calc>>

\* the process is restarted: the module is loaded again and DEFAULT_MODELS
\* is bound to a fresh array literal; the file stays
Restart ==
  /\ DEFAULT_MODELS # DefaultModelsLiteral
  /\ DEFAULT_MODELS' = DefaultModelsLiteral
  /\ last' = [NoCall EXCEPT !.op = "restart", !.pre = file,
                            !.preDefaults = DEFAULT_MODELS]
  /\ UNCHANGED <<file, pending, log, boot, turn, calc>>

\* the catalog behaviours: every model call, and the key calls for one
\* provider and one key
Next ==
  \/ CallSaveApiKey({"openai", ""}, {"sk-A", ""})
  \/ CallDeleteApiKey({"openai"})
  \/ CallSetActiveModel(ModelIdInputs)
  \/ CallAddModel(ModelInputs)
  \/ CallDeleteModel(ModelIdInputs)
  \/ Restart

(***************************************************************************)
(* The key behaviours: every key call for two providers and two keys,      *)
(* reads of a key, and the model calls for one custom model, from stores   *)
(* that may hold ciphertext the running process cannot decrypt.            *)
(***************************************************************************)
\* a caller reads a key: getApiKey loads and decrypts and writes nothing
CallGetApiKey(providers) ==
  \E provider \in providers :
    /\ last' = [NoCall EXCEPT !.op = "getApiKey", !.provider = provider,
                  !.result = getApiKey(file, DEFAULT_MODELS, provider),
                  !.pre = file, !.preDefaults = DEFAULT_MODELS]
    /\ UNCHANGED <<file, DEFAULT_MODELS, pending, log, boot, turn, calc>>

\* a stored string that JSON.parse rejects
CorruptWrapper ==
  [wellFormed |-> FALSE, bundle |-> encrypt("sk-A", DEFAULT_MASTER_KEY, 0)]

\* a bundle whose tag belongs to another ciphertext
BadTagBundle ==
  [wellFormed |-> TRUE,
   bundle |-> [encrypt("sk-A", DEFAULT_MASTER_KEY, 0) EXCEPT
                 !.authTag = encrypt("sk-B", DEFAULT_MASTER_KEY, 0).authTag]]

\* a key saved while MASTER_ENCRYPTION_KEY had another value
WrongKeyBundle == encryptForStorage("sk-A", DEFAULT_MASTER_KEY + 1, 0)

\* a record whose three keys cannot be decrypted by this process
DamagedRecord ==
  [exists |-> TRUE, readable |-> TRUE, hasKeys |-> TRUE,
   keys |-> [p \in {"openai", "xai", "foo"} |->
               CASE p = "openai" -> WrongKeyBundle
                 [] p = "xai" -> BadTagBundle
                 [] OTHER -> CorruptWrapper],
   hasModels |-> TRUE, models |-> DefaultModelsLiteral,
   activeModel |-> "gpt-5-mini"]

\* no file yet, a record of an earlier release, and the damaged record
KeyStoreInits == {NoFile, LegacyRecord, DamagedRecord}

CustomModel == Model("custom-a", "Custom", "openai")

NextKeys ==
  \/ CallSaveApiKey(ProviderInputs, ApiKeyInputs)
  \/ CallDeleteApiKey(ProviderInputs)
  \/ CallGetApiKey(ProviderInputs \cup {"xai"})
  \/ CallSetActiveModel({"gpt-5-mini", "custom-a"})
  \/ CallAddModel({CustomModel})
  \/ CallDeleteModel({"custom-a"})
  \/ Restart

(***************************************************************************)
(* Concurrent requests to the registry routes of server.js.  A request is  *)
(* in flight from its arrival until express calls the route handler; the   *)
(* handler and the aiKeysManager function it calls contain no await, so    *)
(* the load-modify-save cycle of one request is one step.                  *)
(***************************************************************************)
Request(op, id, provider, apiKey) ==
  [op |-> op, id |-> id, provider |-> provider, apiKey |-> apiKey]

RequestInputs ==
  { Request("addModel", "custom-a", "", ""),
    Request("addModel", "custom-b", "", ""),
    Request("setActiveModel", "custom-a", "", ""),
    Request("setActiveModel", "gpt-5.1", "", ""),
    Request("deleteModel", "custom-a", "", ""),
    Request("saveApiKey", "", "openai", "sk-A"),
    Request("saveApiKey", "", "openai", "sk-B"),
    Request("saveApiKey", "", "foo", "sk-A"),
    Request("deleteApiKey", "", "openai", "") }

\* the aiKeysManager call a route handler makes for a request
Dispatch(f, defaults, r, iv, writeOk) ==
  CASE r.op = "addModel" ->
         addModel(f, defaults, Model(r.id, "Custom", "openai"), writeOk)
    [] r.op = "setActiveModel" -> setActiveModel(f, defaults, r.id, writeOk)
    [] r.op = "deleteModel" -> deleteModel(f, defaults, r.id, writeOk)
    [] r.op = "saveApiKey" ->
         saveApiKey(f, defaults, r.provider, r.apiKey, iv, writeOk)
    [] OTHER -> deleteApiKey(f, defaults, r.provider, writeOk)

\* the environment's part in a call: crypto.randomBytes yields iv only when
\* the call encrypts, and writeFileSync can fail only when the call writes
Drawn(f, defaults, r, iv, writeOk) ==
  /\ (iv # 0 => r.op = "saveApiKey" /\ r.apiKey # "" /\ r.provider # "")
  /\ (~writeOk => Dispatch(f, defaults, r, iv, TRUE)
                    # Dispatch(f, defaults, r, iv, FALSE))

\* a request arrives while others are still in flight
Issue ==
  \E r \in RequestInputs :
    /\ Cardinality(pending) + Len(log) < MaxInFlight
    /\ pending' = pending \cup
                    {[req |-> r, n |-> Cardinality(pending) + Len(log) + 1]}
    /\ UNCHANGED <<file, DEFAULT_MODELS, last, log, boot, turn, calc>>

\* a handler that works on the record as it was before the previous
\* handler saved: two load-modify-save cycles overlapping
HandleStale ==
  \E p \in pending, iv \in IVs, writeOk \in BOOLEAN :
    LET o == Dispatch(last.pre, DEFAULT_MODELS, p.req, iv, writeOk)
    IN /\ Drawn(last.pre, DEFAULT_MODELS, p.req, iv, writeOk)
       /\ file' = o.file
       /\ DEFAULT_MODELS' = o.defaults
       /\ pending' = pending \ {p}
       /\ log' = Append(log, [req |-> p.req, n |-> p.n, iv |-> iv,
                               writeOk |-> writeOk, result |-> o.result])
       /\ last' = [NoCall EXCEPT !.op = p.req.op, !.id = p.req.id,
                     !.provider = p.req.provider, !.apiKey = p.req.apiKey,
                     !.writeOk = writeOk, !.result = o.result, !.pre = file,
                     !.preDefaults = DEFAULT_MODELS]
       /\ UNCHANGED <<boot, turn, calc>>

\* express runs the handler of one of the requests in flight
Handle ==
  \E p \in pending, iv \in IVs, writeOk \in BOOLEAN :
    LET o == Dispatch(file, DEFAULT_MODELS, p.req, iv, writeOk)
    IN /\ Drawn(file, DEFAULT_MODELS, p.req, iv, writeOk)
       /\ file' = o.file
       /\ DEFAULT_MODELS' = o.defaults
       /\ pending' = pending \ {p}
       /\ log' = Append(log, [req |-> p.req, n |-> p.n, iv |-> iv,
                               writeOk |-> writeOk, result |-> o.result])
       /\ last' = [NoCall EXCEPT !.op = p.req.op, !.id = p.req.id,
                     !.provider = p.req.provider, !.apiKey = p.req.apiKey,
                     !.writeOk = writeOk, !.result = o.result, !.pre = file,
                     !.preDefaults = DEFAULT_MODELS]
       /\ UNCHANGED <<boot, turn, calc>>

NextConcurrent == Issue \/ Handle

(***************************************************************************)
(* validation.js.  A text is a sequence of tokens; a body field is a       *)
(* string, a value of another type, or missing.                            *)
(***************************************************************************)
Str(toks) == [kind |-> "string", toks |-> toks]
NonStr == [kind |-> "other", toks |-> <<>>]
Undef == [kind |-> "undefined", toks |-> <<>>]

\* number of characters of a token
TokLen(tok) == IF tok = "LONG" THEN 5001 ELSE 1

RECURSIVE CharLen(_)
CharLen(toks) ==
  IF toks = <<>> THEN 0 ELSE TokLen(Head(toks)) + CharLen(Tail(toks))

RECURSIVE RemoveToks(_, _)
RemoveToks(toks, drop) ==
  IF toks = <<>> THEN <<>>
  ELSE IF Head(toks) \in drop THEN RemoveToks(Tail(toks), drop)
       ELSE <<Head(toks)>> \o RemoveToks(Tail(toks), drop)

RECURSIVE TrimLeft(_)
TrimLeft(toks) ==
  IF toks # <<>> /\ Head(toks) = " " THEN TrimLeft(Tail(toks)) ELSE toks

RECURSIVE TrimRight(_)
TrimRight(toks) ==
  IF toks # <<>> /\ toks[Len(toks)] = " "
  THEN TrimRight(SubSeq(toks, 1, Len(toks) - 1)) ELSE toks

\* String.prototype.trim
Trim(toks) == TrimRight(TrimLeft(toks))

\* slice(0, n): the longest prefix of at most n characters
RECURSIVE Slice(_, _)
Slice(toks, n) ==
  IF toks = <<>> \/ TokLen(Head(toks)) > n THEN <<>>
  ELSE <<Head(toks)>> \o Slice(Tail(toks), n - TokLen(Head(toks)))

sanitizeString(input) ==
  IF input.kind # "string" THEN <<>>
  ELSE Slice(Trim(RemoveToks(RemoveToks(RemoveToks(input.toks, {"<", ">"}),
                                        {"javascript:"}), {"onclick="})),
             10000)

\* JavaScript truthiness of a body field
Truthy(v) == v.kind = "other" \/ (v.kind = "string" /\ v.toks # <<>>)

\* validateRequired(value).valid
validateRequired(value) ==
  ~(~Truthy(value) \/ (value.kind = "string" /\ Trim(value.toks) = <<>>))

\* validateLength(value, min, max).valid
validateLength(value, min, max) ==
  /\ value.kind = "string"
  /\ ~(min # 0 /\ CharLen(Trim(value.toks)) < min)
  /\ ~(max # 0 /\ CharLen(Trim(value.toks)) > max)

\* a count field of the body: a number, a string, or missing;
\* nan marks a string that Number() turns into NaN
Num(n) == [kind |-> "number", n |-> n, nan |-> FALSE]
NumStr(n) == [kind |-> "string", n |-> n, nan |-> FALSE]
NaNStr == [kind |-> "string", n |-> 0, nan |-> TRUE]
NoCount == [kind |-> "undefined", n |-> 0, nan |-> FALSE]

\* body.x ? Number(body.x) : undefined
ToCount(c) ==
  IF c.kind = "undefined" \/ (c.kind = "number" /\ c.n = 0) THEN NoCount
  ELSE IF c.nan THEN [kind |-> "number", n |-> 0, nan |-> TRUE]
  ELSE Num(c.n)

\* truthiness of a sanitized count: undefined, 0 and NaN are falsy
CountTruthy(c) == c.kind = "number" /\ ~c.nan /\ c.n # 0

validateAnalyzeAnswerRequest(body) ==
  LET valid == /\ validateRequired(body.answer)
               /\ (Truthy(body.answer) => validateLength(body.answer, 1, 5000))
               /\ validateRequired(body.objective)
  IN [valid |-> valid,
      sanitized |->
        [answer |-> sanitizeString(body.answer),
         objective |-> sanitizeString(body.objective),
         customPrompt |-> sanitizeString(body.customPrompt),
         questionCount |-> ToCount(body.questionCount),
         currentQuestionCount |-> ToCount(body.currentQuestionCount),
         model |-> body.model]]

(***************************************************************************)
(* modelValidator: getSafeModel and supportsJsonMode.  The argument is a   *)
(* JavaScript value: a string, or a value of another type, which is        *)
(* truthy (42, true, {}, ['gpt-4o']) or falsy (undefined, null, 0, false). *)
(* A call returns a value or throws.                                       *)
(***************************************************************************)
Text(text) == [kind |-> "string", text |-> text, truthy |-> text # ""]
Other(kind, truthy) == [kind |-> kind, text |-> "", truthy |-> truthy]

Returned(value) == [threw |-> FALSE, value |-> value]
\* TypeError: modelId.startsWith / modelId.toLowerCase is not a function
Thrown == [threw |-> TRUE, value |-> "TypeError"]

\* the characters of the strings the model works with
Chars(text) ==
  CASE text = "gpt-4o-mini" ->
         <<"g", "p", "t", "-", "4", "o", "-", "m", "i", "n", "i">>
    [] text = "gpt-4o" ->
         <<"g", "p", "t", "-", "4", "o">>
    [] text = "gpt-4-turbo" ->
         <<"g", "p", "t", "-", "4", "-", "t", "u", "r", "b", "o">>
    [] text = "gpt-4" ->
         <<"g", "p", "t", "-", "4">>
    [] text = "gpt-3.5-turbo" ->
         <<"g", "p", "t", "-", "3", ".", "5", "-", "t", "u", "r", "b", "o">>
    [] text = "totally-unknown-123" ->
         <<"t", "o", "t", "a", "l", "l", "y", "-", "u", "n", "k", "n", "o", "w", "n", "-", "1", "2", "3">>
    [] text = "gpt-5-mini" ->
         <<"g", "p", "t", "-", "5", "-", "m", "i", "n", "i">>
    [] text = "gpt-4-0314" ->
         <<"g", "p", "t", "-", "4", "-", "0", "3", "1", "4">>
    [] text = "gpt-4-0613" ->
         <<"g", "p", "t", "-", "4", "-", "0", "6", "1", "3">>
    [] text = "gpt-4-1106-preview" ->
         <<"g", "p", "t", "-", "4", "-", "1", "1", "0", "6", "-", "p", "r", "e", "v", "i", "e", "w">>
    [] text = "gpt-4-0125-preview" ->
         <<"g", "p", "t", "-", "4", "-", "0", "1", "2", "5", "-", "p", "r", "e", "v", "i", "e", "w">>
    [] text = "gpt-3.5-turbo-0301" ->
         <<"g", "p", "t", "-", "3", ".", "5", "-", "t", "u", "r", "b", "o", "-", "0", "3", "0", "1">>
    [] text = "gpt-3.5-turbo-0613" ->
         <<"g", "p", "t", "-", "3", ".", "5", "-", "t", "u", "r", "b", "o", "-", "0", "6", "1", "3">>
    [] text = "gpt-3.5-turbo-1106" ->
         <<"g", "p", "t", "-", "3", ".", "5", "-", "t", "u", "r", "b", "o", "-", "1", "1", "0", "6">>
    [] text = "gpt-3.5-turbo-0125" ->
         <<"g", "p", "t", "-", "3", ".", "5", "-", "t", "u", "r", "b", "o", "-", "0", "1", "2", "5">>
    [] text = "gpt-3.5-turbo-16k" ->
         <<"g", "p", "t", "-", "3", ".", "5", "-", "t", "u", "r", "b", "o", "-", "1", "6", "k">>
    [] text = "gpt-4-turbo-preview" ->
         <<"g", "p", "t", "-", "4", "-", "t", "u", "r", "b", "o", "-", "p", "r", "e", "v", "i", "e", "w">>
    [] text = "gpt-4-32k" ->
         <<"g", "p", "t", "-", "4", "-", "3", "2", "k">>
    [] text = " GPT-4O " ->
         <<" ", "G", "P", "T", "-", "4", "O", " ">>
    [] text = "GPT-4" ->
         <<"G", "P", "T", "-", "4">>
    [] text = "o1-mini" ->
         <<"o", "1", "-", "m", "i", "n", "i">>
    [] text = "gpt-5.1" ->
         <<"g", "p", "t", "-", "5", ".", "1">>
    [] text = "gpt-4-" ->
         <<"g", "p", "t", "-", "4", "-">>
    [] text = "gpt-" ->
         <<"g", "p", "t", "-">>
    [] text = "o" ->
         <<"o">>
    [] text = "1106" ->
         <<"1", "1", "0", "6">>
    [] text = "0125" ->
         <<"0", "1", "2", "5">>
    [] text = "16" ->
         <<"1", "6">>
    [] text = "gpt-5" ->
         <<"g", "p", "t", "-", "5">>
    [] text = "claude-3-5-sonnet-20241022" ->
         <<"c", "l", "a", "u", "d", "e", "-", "3", "-", "5", "-", "s", "o", "n", "n", "e", "t", "-", "2", "0", "2", "4", "1", "0", "2", "2">>
    [] text = "claude-3-opus-20240229" ->
         <<"c", "l", "a", "u", "d", "e", "-", "3", "-", "o", "p", "u", "s", "-", "2", "0", "2", "4", "0", "2", "2", "9">>
    [] text = "claude-3-sonnet-20240229" ->
         <<"c", "l", "a", "u", "d", "e", "-", "3", "-", "s", "o", "n", "n", "e", "t", "-", "2", "0", "2", "4", "0", "2", "2", "9">>
    [] text = "claude-3-haiku-20240307" ->
         <<"c", "l", "a", "u", "d", "e", "-", "3", "-", "h", "a", "i", "k", "u", "-", "2", "0", "2", "4", "0", "3", "0", "7">>
    [] text = "gemini-2.0-flash-exp" ->
         <<"g", "e", "m", "i", "n", "i", "-", "2", ".", "0", "-", "f", "l", "a", "s", "h", "-", "e", "x", "p">>
    [] text = "gemini-1.5-pro" ->
         <<"g", "e", "m", "i", "n", "i", "-", "1", ".", "5", "-", "p", "r", "o">>
    [] text = "gemini-1.5-flash" ->
         <<"g", "e", "m", "i", "n", "i", "-", "1", ".", "5", "-", "f", "l", "a", "s", "h">>
    [] text = "gemini-pro" ->
         <<"g", "e", "m", "i", "n", "i", "-", "p", "r", "o">>
    [] text = "grok-beta" ->
         <<"g", "r", "o", "k", "-", "b", "e", "t", "a">>
    [] text = "custom-a" ->
         <<"c", "u", "s", "t", "o", "m", "-", "a">>
    [] text = "custom-b" ->
         <<"c", "u", "s", "t", "o", "m", "-", "b">>
    [] text = "" -> <<>>

\* String.prototype.toLowerCase, character by character
LowerChar(c) ==
  CASE c = "A" -> "a" [] c = "B" -> "b" [] c = "C" -> "c" [] c = "D" -> "d"
    [] c = "E" -> "e" [] c = "F" -> "f" [] c = "G" -> "g" [] c = "H" -> "h"
    [] c = "I" -> "i" [] c = "J" -> "j" [] c = "K" -> "k" [] c = "L" -> "l"
    [] c = "M" -> "m" [] c = "N" -> "n" [] c = "O" -> "o" [] c = "P" -> "p"
    [] c = "Q" -> "q" [] c = "R" -> "r" [] c = "S" -> "s" [] c = "T" -> "t"
    [] c = "U" -> "u" [] c = "V" -> "v" [] c = "W" -> "w" [] c = "X" -> "x"
    [] c = "Y" -> "y" [] c = "Z" -> "z"
    [] OTHER -> c

toLowerCase(chars) == [i \in 1..Len(chars) |-> LowerChar(chars[i])]

\* pattern occurs in chars at position i
OccursAt(chars, pattern, i) ==
  /\ i + Len(pattern) - 1 <= Len(chars)
  /\ SubSeq(chars, i, i + Len(pattern) - 1) = pattern

startsWith(chars, pattern) == OccursAt(chars, pattern, 1)

includes(chars, pattern) ==
  \E i \in 1..(Len(chars) + 1) : OccursAt(chars, pattern, i)

Digits == {"0", "1", "2", "3", "4", "5", "6", "7", "8", "9"}

DigitValue(c) ==
  CASE c = "0" -> 0 [] c = "1" -> 1 [] c = "2" -> 2 [] c = "3" -> 3
    [] c = "4" -> 4 [] c = "5" -> 5 [] c = "6" -> 6 [] c = "7" -> 7
    [] c = "8" -> 8 [] c = "9" -> 9

\* (\d+) at position i: the longest run of digits that starts there
RECURSIVE DigitRun(_, _)
DigitRun(chars, i) ==
  IF i <= Len(chars) /\ chars[i] \in Digits
  THEN <<chars[i]>> \o DigitRun(chars, i + 1)
  ELSE <<>>

\* parseInt of a run of digits: base ten, leading zeros carry no value
RECURSIVE parseInt(_)
parseInt(digits) ==
  IF digits = <<>> THEN 0
  ELSE parseInt(SubSeq(digits, 1, Len(digits) - 1)) * 10
         + DigitValue(digits[Len(digits)])

\* chars.match(/<prefix>(\d+)/)[1]: the digits after the first occurrence of
\* the prefix that is followed by a digit; <<>> when there is no match
MatchDigitsAfter(chars, prefix) ==
  LET hits == {i \in 1..Len(chars) :
                 /\ OccursAt(chars, prefix, i)
                 /\ DigitRun(chars, i + Len(prefix)) # <<>>}
  IN IF hits = {} THEN <<>>
     ELSE DigitRun(chars,
                   (CHOOSE i \in hits : \A j \in hits : i <= j) + Len(prefix))

\* chars.match(/gpt-3.5-turbo(?:-(\d+))?/)[1] for chars that start with
\* gpt-3.5-turbo: the match is at the start, and the group is the digits
\* right after the dash that follows, <<>> (undefined) when there are none
MatchTurboVersion(chars) ==
  LET base == Chars("gpt-3.5-turbo")
  IN IF OccursAt(chars, <<"-">>, Len(base) + 1)
     THEN DigitRun(chars, Len(base) + 2)
     ELSE <<>>

confirmedAvailableModels ==
  {"gpt-4o-mini", "gpt-4o", "gpt-4-turbo", "gpt-4", "gpt-3.5-turbo"}

\* getSafeModel returning the requested id for every gpt- or o name (the
\* fallback the TODO in the source plans to remove)
getSafeModelTrusting(modelId) ==
  IF modelId.kind = "string" /\ modelId.text \in confirmedAvailableModels
  THEN Returned(modelId.text)
  ELSE IF ~modelId.truthy THEN Returned("gpt-4o-mini")
  ELSE IF modelId.kind # "string" THEN Thrown
  ELSE IF \/ startsWith(Chars(modelId.text), Chars("gpt-"))
          \/ startsWith(Chars(modelId.text), Chars("o"))
       THEN Returned(modelId.text)
       ELSE Returned("gpt-4o-mini")

getSafeModel(modelId) ==
  IF modelId.kind = "string" /\ modelId.text \in confirmedAvailableModels
  THEN Returned(modelId.text)
  ELSE IF ~modelId.truthy THEN Returned("gpt-4o-mini")
  ELSE IF modelId.kind # "string" THEN Thrown
  ELSE IF \/ startsWith(Chars(modelId.text), Chars("gpt-"))
          \/ startsWith(Chars(modelId.text), Chars("o"))
       THEN Returned("gpt-4o-mini")
       ELSE Returned("gpt-4o-mini")

\* supportsJsonMode accepting every dated gpt-4 revision
supportsJsonModeAnyVersion(modelId) ==
  IF ~modelId.truthy THEN Returned(FALSE)
  ELSE IF modelId.kind # "string" THEN Thrown
  ELSE LET normalizedId == Trim(toLowerCase(Chars(modelId.text)))
       IN Returned(
            CASE normalizedId \in {Chars("gpt-4o"), Chars("gpt-4o-mini")} -> TRUE
              [] normalizedId \in {Chars("gpt-4-turbo"),
                                   Chars("gpt-4-turbo-preview")} -> TRUE
              [] startsWith(normalizedId, Chars("gpt-4-")) ->
                   MatchDigitsAfter(normalizedId, Chars("gpt-4-")) # <<>>
              [] OTHER -> FALSE)

supportsJsonMode(modelId) ==
  IF ~modelId.truthy THEN Returned(FALSE)
  ELSE IF modelId.kind # "string" THEN Thrown
  ELSE LET normalizedId == Trim(toLowerCase(Chars(modelId.text)))
           gpt4Version == MatchDigitsAfter(normalizedId, Chars("gpt-4-"))
           turboVersion == MatchTurboVersion(normalizedId)
       IN Returned(
            IF normalizedId \in {Chars("gpt-4o"), Chars("gpt-4o-mini")}
            THEN TRUE
            ELSE IF normalizedId \in {Chars("gpt-4-turbo"),
                                      Chars("gpt-4-turbo-preview")}
            THEN TRUE
            ELSE IF startsWith(normalizedId, Chars("gpt-4-"))
            THEN (IF gpt4Version # <<>> THEN parseInt(gpt4Version) >= 1106
                  ELSE FALSE)
            ELSE IF normalizedId = Chars("gpt-4") THEN FALSE
            ELSE IF startsWith(normalizedId, Chars("gpt-3.5-turbo"))
            THEN (IF turboVersion # <<>> THEN parseInt(turboVersion) >= 1106
                  ELSE \/ includes(normalizedId, Chars("1106"))
                       \/ includes(normalizedId, Chars("0125"))
                       \/ includes(normalizedId, Chars("16")))
            ELSE IF \/ normalizedId \in {Chars("gpt-5"), Chars("gpt-5.1"),
                                         Chars("gpt-5-mini")}
                    \/ startsWith(normalizedId, Chars("gpt-5"))
            THEN TRUE
            ELSE FALSE)

\* the values a request body or the registry can hand to the resolver as
\* the model: model names, the empty string, and values that are no strings
ResolverInputs ==
  {Text("gpt-4o-mini"),
   Text("gpt-4o"),
   Text("gpt-4-turbo"),
   Text("gpt-4"),
   Text("gpt-3.5-turbo"),
   Text("totally-unknown-123"),
   Text("gpt-5-mini"),
   Text("gpt-4-0314"),
   Text("gpt-4-0613"),
   Text("gpt-4-1106-preview"),
   Text("gpt-4-0125-preview"),
   Text("gpt-3.5-turbo-0301"),
   Text("gpt-3.5-turbo-0613"),
   Text("gpt-3.5-turbo-1106"),
   Text("gpt-3.5-turbo-0125"),
   Text("gpt-3.5-turbo-16k"),
   Text("gpt-4-turbo-preview"),
   Text("gpt-4-32k"),
   Text(" GPT-4O "),
   Text("GPT-4"),
   Text("o1-mini"),
   Text("gpt-5.1"),
   Text("")}
    \cup {Other("undefined", FALSE), Other("null", FALSE),
          Other("number", FALSE), Other("number", TRUE),
          Other("boolean", TRUE), Other("object", TRUE),
          Other("array", TRUE)}

(***************************************************************************)
(* server.js: POST /api/analyze-answer.                                    *)
(***************************************************************************)
\* the placeholders of the probing template, in the order they are replaced
\* the replacement patterns of String.prototype.replace: in a replacement
\* string "$&" stands for the matched text
ExpandPatterns(value, matched) ==
  [i \in 1..Len(value) |-> IF value[i] = "$&" THEN matched ELSE value[i]]

RECURSIVE ReplaceAll(_, _, _)
ReplaceAll(toks, placeholder, value) ==
  IF toks = <<>> THEN <<>>
  ELSE (IF Head(toks) = placeholder
        THEN ExpandPatterns(value, placeholder) ELSE <<Head(toks)>>)
         \o ReplaceAll(Tail(toks), placeholder, value)

OrDefault(value, default) == IF value = <<>> THEN default ELSE value

\* the replacement with patterns that lack the g flag: only the first
\* occurrence of each placeholder is replaced
RenderAnalyzePromptFirstOnly(prompt, san) ==
  LET First(toks, p) ==
        IF \E i \in 1..Len(toks) : toks[i] = p
        THEN CHOOSE i \in 1..Len(toks) :
               toks[i] = p /\ \A j \in 1..(i - 1) : toks[j] # p
        ELSE 0
      ReplaceFirst(toks, p, value) ==
        IF First(toks, p) = 0 THEN toks
        ELSE SubSeq(toks, 1, First(toks, p) - 1) \o ExpandPatterns(value, p)
               \o SubSeq(toks, First(toks, p) + 1, Len(toks))
  IN ReplaceFirst(ReplaceFirst(prompt, "{objective}",
                               OrDefault(san.objective, <<"not-specified">>)),
                  "{answer}", san.answer)

\* prompt.replace(/\{objective\}/g, ...) ... prompt.replace(/\{answer\}/g, ...)
RenderAnalyzePrompt(prompt, san) ==
  ReplaceAll(ReplaceAll(prompt, "{objective}",
                        OrDefault(san.objective, <<"not-specified">>)),
             "{answer}", san.answer)

AnswerInputs == {Undef, Str(<<" ">>), Str(<<"good">>), Str(<<"LONG">>), NonStr}
ObjectiveInputs == {Undef, Str(<<"study">>)}
CountInputs == {NoCount, Num(0), Num(3), Num(5), NumStr(5), NaNStr}
PromptInputs == {Undef, Str(<<"probe", "{objective}", "{answer}">>)}
TurnModelInputs == {"", "gpt-4o"}

BodyInputs ==
  [answer : AnswerInputs, objective : ObjectiveInputs,
   questionCount : CountInputs, currentQuestionCount : CountInputs,
   customPrompt : PromptInputs, model : TurnModelInputs]

\* what SettingsModel.getAIPromptSettings() can do: throw, return null,
\* return a row without interview prompt, return a row with one
SettingsOutcomes ==
  { [throws |-> TRUE, row |-> FALSE, interviewPrompt |-> <<>>],
    [throws |-> FALSE, row |-> FALSE, interviewPrompt |-> <<>>],
    [throws |-> FALSE, row |-> TRUE, interviewPrompt |-> <<>>],
    [throws |-> FALSE, row |-> TRUE,
     interviewPrompt |-> <<"stored", "{answer}">>] }

\* what the model can reply.  parsed: "object", "null" (JSON null), or
\* "fail" (JSON.parse throws); noContent: choices[0]?.message?.content is
\* missing or empty, so '{}' is parsed
Reply(parsed, noContent, hasNext, type, question) ==
  [throws |-> "", parsed |-> parsed, noContent |-> noContent,
   hasNext |-> hasNext, type |-> type, question |-> question]

Failure(msg) ==
  [throws |-> msg, parsed |-> "fail", noContent |-> FALSE, hasNext |-> FALSE,
   type |-> "", question |-> Undef]

LLMOutcomes ==
  { Failure("401 Incorrect API key"), Failure("429 Rate limit"),
    Reply("fail", FALSE, FALSE, "", Undef),
    Reply("null", FALSE, FALSE, "", Undef),
    Reply("object", TRUE, FALSE, "", Undef),
    Reply("object", FALSE, FALSE, "", Undef) }
  \cup { Reply("object", FALSE, TRUE, t, q) :
           t \in {"probe", "next_question", "complete"},
           q \in {Undef, Str(<<" ">>), Str(<<"why?">>), NonStr} }

NoResponse ==
  [status |-> 0, success |-> FALSE, error |-> "", message |-> "",
   hasNext |-> FALSE, type |-> "", question |-> Undef, model |-> ""]

NoBody ==
  [answer |-> Undef, objective |-> Undef, questionCount |-> NoCount,
   currentQuestionCount |-> NoCount, customPrompt |-> Undef, model |-> ""]

NoTurn ==
  [pc |-> "idle", body |-> NoBody,
   san |-> validateAnalyzeAnswerRequest(NoBody).sanitized,
   prompt |-> <<>>, modelToUse |-> "", llmCalls |-> 0, settingsLookups |-> 0,
   settings |-> [throws |-> FALSE, row |-> FALSE, interviewPrompt |-> <<>>],
   reply |-> Failure(""), res |-> NoResponse]

\* the limit branch taken one turn late
LimitReachedStrict(san) ==
  /\ CountTruthy(san.questionCount)
  /\ CountTruthy(san.currentQuestionCount)
  /\ san.currentQuestionCount.n > san.questionCount.n

\* the condition of the limit branch
LimitReached(san) ==
  /\ CountTruthy(san.questionCount)
  /\ CountTruthy(san.currentQuestionCount)
  /\ san.currentQuestionCount.n >= san.questionCount.n

\* the catch block of the handler
Caught(msg) ==
  [NoResponse EXCEPT !.status = 500, !.error = "Failed to analyze answer",
                     !.message = msg]

\* from "Replace placeholders" to the call of chat.completions.create
CallModel(t, prompt) ==
  [t EXCEPT !.pc = "awaitLLM",
            !.prompt = RenderAnalyzePrompt(prompt, t.san),
            !.modelToUse =
               getSafeModel(Text(IF t.san.model # "" THEN t.san.model
                                 ELSE getActiveModel(file, DEFAULT_MODELS))
                           ).value,
            !.llmCalls = t.llmCalls + 1]

\* the request arrives: validation, the limit branch, the custom prompt.
\* In the limit branch the response object reads modelToUse, a const that
\* is declared further down the same block: the read throws ReferenceError
AnalyzeAnswer ==
  \E body \in BodyInputs :
    LET v == validateAnalyzeAnswerRequest(body)
        t == [NoTurn EXCEPT !.body = body, !.san = v.sanitized]
    IN /\ turn.pc = "idle"
       /\ turn' =
            IF ~v.valid
            THEN [t EXCEPT !.pc = "done",
                    !.res = [NoResponse EXCEPT !.status = 400,
                                               !.error = "Validation failed"]]
            ELSE IF LimitReached(v.sanitized)
            THEN [t EXCEPT !.pc = "done",
                    !.res = Caught("Cannot access 'modelToUse' before initialization")]
            ELSE IF v.sanitized.customPrompt # <<>>
            THEN CallModel(t, v.sanitized.customPrompt)
            ELSE [t EXCEPT !.pc = "awaitSettings", !.settingsLookups = 1]
       /\ UNCHANGED <<file, DEFAULT_MODELS, last, pending, log, boot, calc>>

\* the lookup falling back to a built-in prompt when no template is stored
SettingsReturnWithDefault ==
  \E o \in SettingsOutcomes :
    LET prompt == IF o.throws \/ ~o.row \/ o.interviewPrompt = <<>>
                  THEN <<"default", "{answer}">> ELSE o.interviewPrompt
    IN /\ turn.pc = "awaitSettings"
       /\ turn' = CallModel([turn EXCEPT !.settings = o], prompt)
       /\ UNCHANGED <<file, DEFAULT_MODELS, last, pending, log, boot, calc>>

\* SettingsModel.getAIPromptSettings() settles
SettingsReturn ==
  \E o \in SettingsOutcomes :
    LET prompt == IF o.throws \/ ~o.row THEN <<>> ELSE o.interviewPrompt
    IN /\ turn.pc = "awaitSettings"
       /\ turn' =
            IF prompt = <<>>
            THEN [turn EXCEPT !.pc = "done", !.settings = o,
                    !.res = [NoResponse EXCEPT !.status = 400,
                               !.error = "No prompt template available"]]
            ELSE CallModel([turn EXCEPT !.settings = o], prompt)
       /\ UNCHANGED <<file, DEFAULT_MODELS, last, pending, log, boot, calc>>

\* (variant whose question check does not trim)
AnswerResponseUntrimmed(t, o) ==
  IF o.throws # "" THEN Caught(o.throws)
  ELSE IF ~o.noContent /\ o.parsed = "null"
  THEN Caught("Cannot read properties of null")
  ELSE LET parsedOk == o.noContent \/ o.parsed = "object"
           hasNext == parsedOk /\ ~o.noContent /\ o.hasNext
       IN IF hasNext /\ o.type \in {"probe", "next_question"}
             /\ ~Truthy(o.question)
          THEN [NoResponse EXCEPT !.status = 500,
                                  !.error = "AI did not generate a question"]
          ELSE [NoResponse EXCEPT !.status = 200, !.success = TRUE,
                  !.hasNext = hasNext,
                  !.type = IF hasNext THEN o.type ELSE "",
                  !.question = IF hasNext THEN o.question ELSE Undef,
                  !.model = t.modelToUse]

\* the response built from the model's reply
AnswerResponse(t, o) ==
  IF o.throws # "" THEN Caught(o.throws)
  ELSE IF ~o.noContent /\ o.parsed = "null"
  THEN Caught("Cannot read properties of null")
  ELSE LET parsedOk == o.noContent \/ o.parsed = "object"
           hasNext == parsedOk /\ ~o.noContent /\ o.hasNext
       IN IF hasNext /\ o.type \in {"probe", "next_question"}
             /\ o.question.kind = "other"
          THEN Caught("result.nextAction.question.trim is not a function")
          ELSE IF hasNext /\ o.type \in {"probe", "next_question"}
                  /\ (~Truthy(o.question) \/ Trim(o.question.toks) = <<>>)
          THEN [NoResponse EXCEPT !.status = 500,
                                  !.error = "AI did not generate a question"]
          ELSE [NoResponse EXCEPT !.status = 200, !.success = TRUE,
                  !.hasNext = hasNext,
                  !.type = IF hasNext THEN o.type ELSE "",
                  !.question = IF hasNext THEN o.question ELSE Undef,
                  !.model = t.modelToUse]

\* openaiClient.chat.completions.create settles
ModelReturn ==
  \E o \in LLMOutcomes :
    /\ turn.pc = "awaitLLM"
    /\ turn' = [turn EXCEPT !.pc = "done", !.reply = o,
                            !.res = AnswerResponse(turn, o)]
    /\ UNCHANGED <<file, DEFAULT_MODELS, last, pending, log, boot, calc>>

NextInterview == AnalyzeAnswer \/ SettingsReturn \/ ModelReturn

(***************************************************************************)
(* server.js: POST /api/generate-first-question, from the model's reply    *)
(* to the response.  The reply text is a sequence of tokens: punctuation   *)
(* characters, the word question (as written, or capitalised), the Thai    *)
(* word for question, and pieces of text without punctuation.  A reply     *)
(* carries what JSON.parse makes of its text.                              *)
(***************************************************************************)
DQ == "\""

\* number of characters of a reply token
ReplyTokLen(tok) ==
  CASE tok \in {"question", "Question"} -> 8
    [] tok = "khamtham" -> 5
    [] tok = "What motivates your choice?" -> 27
    [] tok = "about price and quality" -> 23
    [] tok = "Why?" -> 4
    [] OTHER -> 1

RECURSIVE ReplyLen(_)
ReplyLen(toks) ==
  IF toks = <<>> THEN 0 ELSE ReplyTokLen(Head(toks)) + ReplyLen(Tail(toks))

\* \s
WhiteSpace == {" ", "\n"}

\* String.prototype.trim on reply text
RECURSIVE ReplyTrim(_)
ReplyTrim(toks) ==
  IF toks # <<>> /\ Head(toks) \in WhiteSpace THEN ReplyTrim(Tail(toks))
  ELSE IF toks # <<>> /\ toks[Len(toks)] \in WhiteSpace
       THEN ReplyTrim(SubSeq(toks, 1, Len(toks) - 1))
       ELSE toks

\* the longest run of tokens outside `excluded` that starts at position i
RECURSIVE RunFrom(_, _, _)
RunFrom(toks, i, excluded) ==
  IF i <= Len(toks) /\ toks[i] \notin excluded
  THEN <<toks[i]>> \o RunFrom(toks, i + 1, excluded)
  ELSE <<>>

\* the longest run of tokens of `allowed` that starts at position i
RECURSIVE RunIn(_, _, _)
RunIn(toks, i, allowed) ==
  IF i <= Len(toks) /\ toks[i] \in allowed
  THEN <<toks[i]>> \o RunIn(toks, i + 1, allowed)
  ELSE <<>>

\* the longest prefix of a run that has at most n characters
RECURSIVE TakeChars(_, _)
TakeChars(toks, n) ==
  IF toks = <<>> \/ ReplyTokLen(Head(toks)) > n THEN <<>>
  ELSE <<Head(toks)>> \o TakeChars(Tail(toks), n - ReplyTokLen(Head(toks)))

\* position after \s* starting at i
RECURSIVE SkipSpace(_, _)
SkipSpace(toks, i) ==
  IF i <= Len(toks) /\ toks[i] \in WhiteSpace THEN SkipSpace(toks, i + 1)
  ELSE i

TokenAt(toks, i) == IF i >= 1 /\ i <= Len(toks) THEN toks[i] ELSE "END"

\* the smallest element of a non-empty set of positions
Leftmost(positions) == CHOOSE i \in positions : \A j \in positions : i <= j

\* /"question"\s*:\s*"([^"]+)"/ tried at position i: the group, or <<>>.
\* words: the spellings of the key the pattern accepts; spaceBeforeColon:
\* whether the pattern has \s* in front of the colon
QuotedKeyAt(toks, i, words, spaceBeforeColon) ==
  LET colon == IF spaceBeforeColon THEN SkipSpace(toks, i + 3) ELSE i + 3
      quote == SkipSpace(toks, colon + 1)
      group == RunFrom(toks, quote + 1, {DQ})
  IN IF /\ TokenAt(toks, i) = DQ
        /\ TokenAt(toks, i + 1) \in words
        /\ TokenAt(toks, i + 2) = DQ
        /\ TokenAt(toks, colon) = ":"
        /\ TokenAt(toks, quote) = DQ
        /\ group # <<>>
        /\ TokenAt(toks, quote + 1 + Len(group)) = DQ
     THEN group ELSE <<>>

\* text.match(pattern)[1] for the quoted-key patterns: the group of the
\* leftmost match, <<>> when the pattern does not match
MatchQuotedKey(toks, words, spaceBeforeColon) ==
  LET hits == {i \in 1..Len(toks) :
                 QuotedKeyAt(toks, i, words, spaceBeforeColon) # <<>>}
  IN IF hits = {} THEN <<>>
     ELSE QuotedKeyAt(toks, Leftmost(hits), words, spaceBeforeColon)

\* /question["\s:]*([^"}\n]{min,max})/i tried at position i: after the
\* word, the separators are taken greedily and given back one by one while
\* the group is too short; the group starts at the last position that
\* leaves it long enough
BareKeyAt(toks, i, words, excluded, min, max) ==
  LET sepEnd == i + Len(RunIn(toks, i + 1, {DQ, ":"} \cup WhiteSpace))
      starts == {k \in (i + 1)..(sepEnd + 1) :
                   /\ \A j \in k..sepEnd : toks[j] \notin excluded
                   /\ ReplyLen(RunFrom(toks, k, excluded)) >= min}
  IN IF TokenAt(toks, i) \in words /\ starts # {}
     THEN TakeChars(RunFrom(toks,
                            CHOOSE k \in starts : \A j \in starts : j <= k,
                            excluded), max)
     ELSE <<>>

MatchBareKey(toks, words, excluded, min, max) ==
  LET hits == {i \in 1..Len(toks) :
                 BareKeyAt(toks, i, words, excluded, min, max) # <<>>}
  IN IF hits = {} THEN <<>>
     ELSE BareKeyAt(toks, Leftmost(hits), words, excluded, min, max)

\* the extractors of the catch block, in the order they are tried
CatchExtractors(toks) ==
  << MatchQuotedKey(toks, {"question"}, FALSE),
     MatchQuotedKey(toks, {"question"}, TRUE),
     ReplyTrim(MatchBareKey(toks, {"question", "Question"},
                            {DQ, "}", "\n"}, 1, 100000)) >>

\* questionPatterns, in the order of the array
questionPatterns(toks) ==
  << MatchQuotedKey(toks, {"question", "Question"}, TRUE),
     MatchBareKey(toks, {"question", "Question"}, {DQ, "}", "\n"}, 20, 200),
     MatchBareKey(toks, {"question", "Question", "khamtham"},
                  {DQ, "}", "{", "\n"}, 20, 200) >>

\* the first entry of a list of matches that is not empty; <<>> if none
RECURSIVE FirstMatch(_)
FirstMatch(matches) ==
  IF matches = <<>> THEN <<>>
  ELSE IF Head(matches) # <<>> THEN Head(matches)
       ELSE FirstMatch(Tail(matches))

\* a reply: its text, what JSON.parse does with it ("object", "null" or
\* "fail"), and the fields question and text of the parsed object
ModelReply(text, json, question, altText) ==
  [text |-> text, json |-> json, question |-> question, altText |-> altText]

FirstQuestionFailed(error) ==
  [status |-> 500, success |-> FALSE, error |-> error, question |-> <<>>]

\* (variant that answers with whatever was extracted, empty or not)
FirstQuestionResponseUnchecked(reply) ==
  LET caught == FirstMatch(CatchExtractors(reply.text))
      pattern == FirstMatch(questionPatterns(reply.text))
  IN [status |-> 200, success |-> TRUE, error |-> "",
      question |-> IF Truthy(reply.question) /\ reply.json = "object"
                   THEN ReplyTrim(reply.question.toks)
                   ELSE IF caught # <<>> THEN ReplyTrim(caught)
                   ELSE ReplyTrim(pattern)]

\* the handler from JSON.parse(aiResponse) to the response
FirstQuestionResponse(reply) ==
  LET \* result.question after the try/catch
      caught == FirstMatch(CatchExtractors(reply.text))
      parsed == IF reply.json # "fail" THEN reply.question
                ELSE IF caught # <<>> THEN Str(caught) ELSE Undef
      \* result.question || ... || result.text || ''
      alt == IF reply.json = "fail" THEN Undef ELSE reply.altText
      question == IF Truthy(parsed) THEN parsed
                  ELSE IF Truthy(alt) THEN alt ELSE Str(<<>>)
      blank == ~Truthy(question) \/ ReplyTrim(question.toks) = <<>>
      pattern == FirstMatch(questionPatterns(reply.text))
      final == IF blank /\ pattern # <<>> THEN ReplyTrim(pattern)
               ELSE IF blank THEN <<>>
               ELSE ReplyTrim(question.toks)
  IN IF reply.json = "null"
     THEN FirstQuestionFailed("Failed to generate first question")
     ELSE IF question.kind = "other"
     THEN FirstQuestionFailed("Failed to generate first question")
     ELSE IF final = <<>>
     THEN FirstQuestionFailed("AI did not generate a question")
     ELSE [status |-> 200, success |-> TRUE, error |-> "", question |-> final]

(***************************************************************************)
(* validation.js: validateAnalyzeObjectiveRequest, and server.js: POST     *)
(* /api/analyze-objective.  The messages of the catch block are Thai in    *)
(* the source and are written here by what they say.                       *)
(***************************************************************************)
\* validateNumber(value, min, max).valid
validateNumber(value, min, max) ==
  ~value.nan /\ value.n >= min /\ value.n <= max

validateAnalyzeObjectiveRequest(body) ==
  LET valid == /\ validateRequired(body.objective)
               /\ (Truthy(body.objective)
                     => validateLength(body.objective, 10, 2000))
               /\ (Truthy(body.surveyName)
                     => validateLength(body.surveyName, 3, 200))
               /\ (body.questionCount.kind # "undefined"
                     => validateNumber(body.questionCount, 1, 100))
  IN [valid |-> valid,
      sanitized |->
        [objective |-> sanitizeString(body.objective),
         surveyName |-> sanitizeString(body.surveyName),
         questionCount |-> ToCount(body.questionCount)]]

\* the messages of the catch block for a rejected key and for a rate limit
CheckYourApiKey == "API Key is not valid, check the API key in AI Settings"

TryAgainLater == "Rate limit exceeded, try again later"

\* an error thrown by the LLM client: HTTP status (0 if none), code, message
UpstreamError(status, code, message) ==
  [throws |-> TRUE, status |-> status, code |-> code, message |-> message,
   parses |-> FALSE]

\* a reply of the LLM client and whether JSON.parse accepts its content
UpstreamReply(parses) ==
  [throws |-> FALSE, status |-> 0, code |-> "", message |-> "",
   parses |-> parses]

ObjectiveResponse(status, error, message) ==
  [status |-> status, success |-> status = 200, error |-> error,
   message |-> message]

\* the catch block of analyze-objective
AnalyzeObjectiveCaught(error) ==
  IF error.status = 401 \/ error.code = "invalid_api_key"
  THEN ObjectiveResponse(401, "Failed to analyze objective", CheckYourApiKey)
  ELSE IF error.status = 404 \/ error.code = "model_not_found"
  THEN ObjectiveResponse(404, "Failed to analyze objective",
                         "Model not found, choose another model")
  ELSE IF error.status = 429
  THEN ObjectiveResponse(429, "Failed to analyze objective", TryAgainLater)
  ELSE IF error.message = "Missing API key"
  THEN ObjectiveResponse(401, "Failed to analyze objective",
                         "There is a problem with the API key")
  ELSE IF error.message # ""
  THEN ObjectiveResponse(500, "Failed to analyze objective", error.message)
  ELSE ObjectiveResponse(500, "Failed to analyze objective",
                         "Cannot analyze with AI")

\* the handler: the response, how often the LLM client was called, and the
\* objective that was placed in the prompt
AnalyzeObjective(body, hasKey, o) ==
  LET v == validateAnalyzeObjectiveRequest(body)
  IN IF ~v.valid
     THEN [res |-> ObjectiveResponse(400, "Validation failed", ""),
           llmCalls |-> 0, objective |-> <<>>]
     ELSE IF ~hasKey
     THEN [res |-> ObjectiveResponse(400, "API key not configured", ""),
           llmCalls |-> 0, objective |-> <<>>]
     ELSE [res |-> IF o.throws THEN AnalyzeObjectiveCaught(o)
                   ELSE IF ~o.parses
                   THEN AnalyzeObjectiveCaught(
                          UpstreamError(0, "", "Unexpected token"))
                   ELSE ObjectiveResponse(200, "", ""),
           llmCalls |-> 1, objective |-> v.sanitized.objective]

(***************************************************************************)
(* server.js: POST /api/interviews/:id/summarize.                          *)
(***************************************************************************)
SummarizeResponse(status, error, message) ==
  [status |-> status, success |-> status = 200, error |-> error,
   message |-> message, summary |-> "", model |-> ""]

\* the handler: the response and how often the LLM client was called.  The
\* handler takes transcript, topic, segment and key_focus from the body and
\* then evaluates `model || getCurrentModel()`; no binding named model is
\* declared in the handler or in the module, so the evaluation throws
\* ReferenceError before chat.completions.create is reached, and the catch
\* block answers
SummarizeInterview(body) ==
  IF body.transcript \notin {"empty array", "array"}
  THEN [res |-> SummarizeResponse(400, "Transcript is required", ""),
        llmCalls |-> 0]
  ELSE [res |-> SummarizeResponse(500, "Failed to summarize interview",
                                  "model is not defined"),
        llmCalls |-> 0]

(***************************************************************************)
(* Applications of the pure functions of the core (the vault and the      *)
(* capability resolver) to drawn inputs; calc records the last one.       *)
(***************************************************************************)
NoCalc == [fn |-> "none"]

\* the default master key and a second one
MasterKeys == {DEFAULT_MASTER_KEY, DEFAULT_MASTER_KEY + 1}

\* what can happen to a stored bundle between encrypt and decrypt: another
\* tag, another ciphertext, or a hex digit a-f of the tag or of the
\* ciphertext rewritten in upper case (one bit of the stored text)
TamperKinds == {"tagBytes", "cipherBytes", "tagCase", "cipherCase"}

TamperBundle(b, kind) ==
  CASE kind = "tagBytes" ->
         [b EXCEPT !.authTag.bytes =
            <<@[1], @[2], (@[3] + 1) % CipherModulus>>]
    [] kind = "cipherBytes" ->
         [b EXCEPT !.encrypted.bytes = (@ + 1) % CipherModulus]
    [] kind = "tagCase" -> [b EXCEPT !.authTag.upper = TRUE]
    [] kind = "cipherCase" -> [b EXCEPT !.encrypted.upper = TRUE]
    [] OTHER -> b

\* the bundle inside what encrypt (a bundle) or encryptForStorage (a string
\* around a bundle) returned
BundleOf(held, wrapped) == IF wrapped THEN held.bundle ELSE held

\* encrypt or encryptForStorage is applied to a text under a master key
VaultEncrypt ==
  \E text \in ApiKeyInputs, masterKey \in MasterKeys, iv \in IVs,
     wrapped \in BOOLEAN :
    LET made == IF wrapped THEN encryptForStorage(text, masterKey, iv)
                ELSE encrypt(text, masterKey, iv)
    IN /\ calc' = [fn |-> "encrypt", wrapped |-> wrapped, text |-> text,
                   masterKey |-> masterKey, made |-> made, held |-> made,
                   tamper |-> "none", usedKey |-> masterKey,
                   out |-> [ok |-> FALSE, text |-> ""]]
       /\ UNCHANGED <<file, DEFAULT_MODELS, last, pending, log, boot, turn>>

\* the stored value is altered before it is read back
VaultTamper ==
  /\ calc.fn = "encrypt"
  /\ \E kind \in TamperKinds :
       calc' = [calc EXCEPT
                  !.fn = "tamper", !.tamper = kind,
                  !.held = IF calc.wrapped
                           THEN [@ EXCEPT !.bundle = TamperBundle(@, kind)]
                           ELSE TamperBundle(@, kind)]
  /\ UNCHANGED <<file, DEFAULT_MODELS, last, pending, log, boot, turn>>

\* decrypt or decryptFromStorage is applied to the held value
VaultDecrypt ==
  /\ calc.fn \in {"encrypt", "tamper"}
  /\ \E usedKey \in MasterKeys :
       calc' = [calc EXCEPT
                  !.fn = "decrypt", !.usedKey = usedKey,
                  !.out = IF calc.wrapped
                          THEN decryptFromStorage(calc.held, usedKey)
                          ELSE decrypt(calc.held, usedKey)]
  /\ UNCHANGED <<file, DEFAULT_MODELS, last, pending, log, boot, turn>>

\* getSafeModel is applied to a value
CallGetSafeModel ==
  \E modelId \in ResolverInputs :
    /\ calc' = [fn |-> "getSafeModel", input |-> modelId,
                out |-> getSafeModel(modelId)]
    /\ UNCHANGED <<file, DEFAULT_MODELS, last, pending, log, boot, turn>>

\* supportsJsonMode is applied to a value
CallSupportsJsonMode ==
  \E modelId \in ResolverInputs :
    /\ calc' = [fn |-> "supportsJsonMode", input |-> modelId,
                out |-> supportsJsonMode(modelId)]
    /\ UNCHANGED <<file, DEFAULT_MODELS, last, pending, log, boot, turn>>

\* the templates and caller values the rendering is applied to: a template
\* with repeated and unknown placeholders, and values that are plain text,
\* missing, a placeholder token, or a replacement pattern
TemplateInputs ==
  {<<"probe", "{objective}", "{answer}", "{objective}", "{topic}">>,
   <<"{answer}", "about", "{objective}", "{answer}">>,
   <<"plain", "{topic}">>}

ValueInputs == {<<>>, <<"study">>, <<"{answer}">>, <<"{objective}">>, <<"$&">>}

\* the placeholder replacement of analyze-answer is applied to a template
CallRender ==
  \E template \in TemplateInputs, objective \in ValueInputs,
     answer \in ValueInputs \ {<<>>} :
    LET san == [objective |-> objective, answer |-> answer]
    IN /\ calc' = [fn |-> "render", template |-> template, san |-> san,
                   out |-> RenderAnalyzePrompt(template, san)]
       /\ UNCHANGED <<file, DEFAULT_MODELS, last, pending, log, boot, turn>>

\* the replies the recovery is applied to.  Each text is paired with what
\* JSON.parse makes of it.
ExampleText == "What motivates your choice?"

Quoted(tok) == <<DQ, tok, DQ>>

Field(name, value) == Quoted(name) \o <<":", " ">> \o Quoted(value)

ReplyInputs ==
  { \* {"question": "What motivates your choice?"}
    ModelReply(<<"{">> \o Field("question", ExampleText) \o <<"}">>,
               "object", Str(<<ExampleText>>), Undef),
    \* question: "What motivates your choice?"
    ModelReply(<<"question", ":", " ">> \o Quoted(ExampleText),
               "fail", Undef, Undef),
    \* "question": "What motivates your choice?"
    ModelReply(Field("question", ExampleText), "fail", Undef, Undef),
    \* {"question": "What motivates your choice?     (cut off)
    ModelReply(<<"{">> \o Quoted("question") \o <<":", " ", DQ, ExampleText>>,
               "fail", Undef, Undef),
    \* Question: "What motivates your choice?"
    ModelReply(<<"Question", ":", " ">> \o Quoted(ExampleText),
               "fail", Undef, Undef),
    \* question: Why? "question": "What motivates your choice?"
    ModelReply(<<"question", ":", " ", "Why?", " ">>
                 \o Field("question", ExampleText), "fail", Undef, Undef),
    \* question: Why?
    ModelReply(<<"question", ":", " ", "Why?">>, "fail", Undef, Undef),
    \* the Thai word for question, a colon, and the question
    ModelReply(<<"khamtham", ":", " ", ExampleText>>, "fail", Undef, Undef),
    \* Why?
    ModelReply(<<"Why?">>, "fail", Undef, Undef),
    \* question:     (nothing but a space after the colon)
    ModelReply(<<"question", ":", " ">>, "fail", Undef, Undef),
    \* {}
    ModelReply(<<"{", "}">>, "object", Undef, Undef),
    \* {"question": ""}
    ModelReply(<<"{">> \o Quoted("question") \o <<":", " ", DQ, DQ, "}">>,
               "object", Str(<<>>), Undef),
    \* {"question": " "}
    ModelReply(<<"{">> \o Field("question", " ") \o <<"}">>,
               "object", Str(<<" ">>), Undef),
    \* {"question": 42}
    ModelReply(<<"{">> \o Quoted("question") \o <<":", " ", "42", "}">>,
               "object", NonStr, Undef),
    \* {"text": "Why?"}
    ModelReply(<<"{">> \o Field("text", "Why?") \o <<"}">>,
               "object", Undef, Str(<<"Why?">>)),
    \* {"reason": "question about price and quality"}
    ModelReply(<<"{">> \o Quoted("reason")
                 \o <<":", " ", DQ, "question", " ",
                      "about price and quality", DQ, "}">>,
               "object", Undef, Undef),
    \* null
    ModelReply(<<"null">>, "null", Undef, Undef) }

\* the recovery of generate-first-question is applied to a reply
CallFirstQuestion ==
  \E reply \in ReplyInputs :
    /\ calc' = [fn |-> "firstQuestion", reply |-> reply,
                out |-> FirstQuestionResponse(reply)]
    /\ UNCHANGED <<file, DEFAULT_MODELS, last, pending, log, boot, turn>>

\* request bodies of analyze-objective: the objective is missing, not a
\* string, blank, too short, too long, made of characters the sanitizer
\* removes, or a text of ten characters and more
Repeat(tok, n) == [i \in 1..n |-> tok]

ObjectiveBodyInputs ==
  [objective : {Undef, NonStr, Str(<<" ", " ">>), Str(<<"a">>),
                Str(<<"LONG">>), Str(Repeat("<", 10)),
                Str(Repeat("javascript:", 10)),
                Str(Repeat("a", 10)), Str(Repeat("<", 9) \o <<"a">>)},
   surveyName : {Undef, Str(<<"a">>)},
   questionCount : {NoCount, NaNStr}]

UpstreamOutcomes ==
  { UpstreamReply(TRUE), UpstreamReply(FALSE),
    UpstreamError(401, "invalid_api_key", "Incorrect API key provided"),
    UpstreamError(429, "rate_limit_exceeded", "Rate limit reached"),
    UpstreamError(404, "model_not_found", "The model does not exist"),
    UpstreamError(0, "", "Missing API key"),
    UpstreamError(0, "", "Connection error"),
    UpstreamError(0, "", "") }

\* a well-formed body of analyze-objective
PlainObjectiveBody ==
  [objective |-> Str(Repeat("a", 10)), surveyName |-> Undef,
   questionCount |-> NoCount]

\* a request to analyze-objective is handled: any body while the key is
\* there and the LLM client answers, or a well-formed body with or without
\* key and any outcome of the LLM client
CallAnalyzeObjective ==
  \E body \in ObjectiveBodyInputs, hasKey \in BOOLEAN,
     o \in UpstreamOutcomes :
    /\ body = PlainObjectiveBody \/ (hasKey /\ o = UpstreamReply(TRUE))
    /\ calc' = [fn |-> "analyzeObjective", body |-> body, hasKey |-> hasKey,
                reply |-> o, out |-> AnalyzeObjective(body, hasKey, o)]
    /\ UNCHANGED <<file, DEFAULT_MODELS, last, pending, log, boot, turn>>

\* request bodies of summarize: the transcript is missing, a string, an
\* empty array or an array of turns; the body names a model or not
SummarizeBodyInputs ==
  [transcript : {"missing", "string", "empty array", "array"},
   model : {"", "gpt-4o"}]

\* a request to summarize is handled while the LLM client would answer o
CallSummarize ==
  \E body \in SummarizeBodyInputs,
     o \in {UpstreamReply(TRUE), UpstreamError(429, "", "Rate limit reached")} :
    /\ calc' = [fn |-> "summarize", body |-> body, reply |-> o,
                out |-> SummarizeInterview(body)]
    /\ UNCHANGED <<file, DEFAULT_MODELS, last, pending, log, boot, turn>>

NextCore ==
  \/ CallRender
  \/ CallSummarize
  \/ CallAnalyzeObjective
  \/ CallFirstQuestion
  \/ VaultEncrypt
  \/ VaultTamper
  \/ VaultDecrypt
  \/ CallGetSafeModel
  \/ CallSupportsJsonMode

(***************************************************************************)
(* Specifications.                                                         *)
(***************************************************************************)
Init ==
  /\ file \in StoreInits
  /\ DEFAULT_MODELS = DefaultModelsLiteral
  /\ last = NoCall
  /\ pending = {}
  /\ log = <<>>
  /\ boot = file
  /\ turn = NoTurn
  /\ calc = NoCalc

\* the registry called by one caller at a time
Spec == Init /\ [][Next]_vars

\* registry requests in flight at the same time
SpecConcurrent == Init /\ [][NextConcurrent]_vars

\* one analyze-answer turn; the handler keeps nothing between requests
SpecInterview == Init /\ [][NextInterview]_vars

\* the key behaviours, from every store of KeyStoreInits
InitKeys ==
  /\ file \in KeyStoreInits
  /\ DEFAULT_MODELS = DefaultModelsLiteral
  /\ last = NoCall
  /\ pending = {}
  /\ log = <<>>
  /\ boot = file
  /\ turn = NoTurn
  /\ calc = NoCalc

SpecKeys == InitKeys /\ [][NextKeys]_vars

\* the pure functions of the core applied to drawn inputs
SpecCore == Init /\ [][NextCore]_vars

(***************************************************************************)
(* Vocabulary of the registry claims.                                      *)
(***************************************************************************)
\* the ids of the built-in catalog as shipped
BuiltinIds == Ids(DefaultModelsLiteral)

\* the catalog getAllKeys exposes in a given state of file and memory
Catalog(f, defaults) == getAllKeys(f, defaults).models

\* the models the durable record holds
PersistedModels(f) ==
  IF f.exists /\ f.readable /\ f.hasModels THEN f.models ELSE <<>>

\* number of entries of a catalog with a given id
CountId(s, id) == Cardinality({i \in 1..Len(s) : s[i].id = id})

(***************************************************************************)
(* Vocabulary of the analyze-answer claims.                                *)
(***************************************************************************)
\* a count the caller supplied as a number of turns (1 or more), written
\* as a number or as a numeric string
SuppliedCount(c) == c.kind # "undefined" /\ ~c.nan /\ c.n >= 1

\* currentQuestionCount >= questionCount with both supplied
TurnLimitHit(body) ==
  /\ SuppliedCount(body.questionCount)
  /\ SuppliedCount(body.currentQuestionCount)
  /\ body.currentQuestionCount.n >= body.questionCount.n

\* the request passed validation
ValidTurn == turn.pc # "idle" /\ validateAnalyzeAnswerRequest(turn.body).valid

\* the model answered, and the answer could not be parsed, was empty, or
\* parsed to something without a next action
ReplyWithoutAction ==
  /\ turn.pc = "done" /\ turn.llmCalls = 1 /\ turn.reply.throws = ""
  /\ \/ turn.reply.noContent
     \/ turn.reply.parsed = "fail"
     \/ (turn.reply.parsed = "object" /\ ~turn.reply.hasNext)

(***************************************************************************)
(* Claims.                                                                 *)
(***************************************************************************)
\* C1: a valid analyze-answer request whose currentQuestionCount has
\* reached questionCount ends with a success result whose next action is
\* 'complete' with empty question text.
C1_LimitEndsInComplete ==
  (ValidTurn /\ TurnLimitHit(turn.body) /\ turn.pc = "done") =>
    /\ turn.res.success
    /\ turn.res.type = "complete"
    /\ ~Truthy(turn.res.question)

\* C2: when the turn limit is reached the request finishes at once, with
\* no LLM client invocation and no settings-store lookup.
C2_LimitBeforeExternalCalls ==
  (ValidTurn /\ TurnLimitHit(turn.body)) =>
    turn.pc = "done" /\ turn.llmCalls = 0 /\ turn.settingsLookups = 0

C2_Witness ==
  /\ ValidTurn /\ TurnLimitHit(turn.body) /\ turn.pc = "done"
  /\ turn.body.questionCount = Num(5) /\ turn.body.currentQuestionCount = Num(5)
  /\ turn.body.customPrompt = Undef
  /\ turn.llmCalls = 0 /\ turn.settingsLookups = 0

\* C3: a reply that cannot be parsed, or that parses to an object without
\* a next action, never yields a success response.
C3_UnparseableReplyIsError ==
  ReplyWithoutAction => ~turn.res.success /\ turn.res.status >= 400

\* C4: the ids deleteModel rejects as built-in are exactly the 16 built-in
\* ids, whatever registry calls were made and whatever store was found.
C4_BuiltinCatalogImmutable ==
  /\ Ids(DEFAULT_MODELS) = BuiltinIds
  /\ (last.op = "deleteModel" /\ last.id \notin BuiltinIds) =>
       last.result # "throw:Cannot delete default model"

\* C5: the catalog getAllKeys returns is the built-in catalog followed by
\* the persisted models whose id is not a built-in id.
C5_CatalogIsBuiltinsPlusPersisted ==
  Catalog(file, DEFAULT_MODELS)
    = DefaultModelsLiteral \o FilterOutIds(PersistedModels(file), BuiltinIds)

\* C6: the active model getActiveModel and getAllKeys report is the id of a
\* model in the merged catalog.
C6_ActiveModelInCatalog ==
  /\ getActiveModel(file, DEFAULT_MODELS) \in Ids(Catalog(file, DEFAULT_MODELS))
  /\ getAllKeys(file, DEFAULT_MODELS).activeModel
       \in Ids(Catalog(file, DEFAULT_MODELS))

\* C7: setActiveModel(id) throws 'Model not found' and leaves the record
\* alone exactly when id is not in the merged catalog; otherwise it
\* succeeds and id becomes the active model (the storage write succeeding).
C7_SetActiveChecksMergedCatalog ==
  (last.op = "setActiveModel" /\ last.writeOk) =>
    IF last.id \notin Ids(Catalog(last.pre, last.preDefaults))
    THEN last.result = "throw:Model not found" /\ file = last.pre
    ELSE last.result = "true" /\ getActiveModel(file, DEFAULT_MODELS) = last.id

\* C8: addModel throws a validation error when id, name or provider is
\* missing and a conflict error when the id is in the built-in or the
\* custom catalog, leaving the record alone; otherwise the model is added
\* exactly once (the storage write succeeding).
C8_AddModelValidatesAndRejectsDuplicates ==
  (last.op = "addModel" /\ last.writeOk) =>
    IF last.model.id = "" \/ last.model.name = "" \/ last.model.provider = ""
    THEN /\ last.result = "throw:Model must have id, name, and provider"
         /\ file = last.pre
    ELSE IF last.id \in Ids(Catalog(last.pre, last.preDefaults))
    THEN last.result = "throw:Model already exists" /\ file = last.pre
    ELSE /\ last.result = "true"
         /\ CountId(Catalog(file, DEFAULT_MODELS), last.id) = 1
         /\ CountId(PersistedModels(file), last.id) = 1

\* C9: deleteModel(id) throws and changes nothing when id is built-in; when
\* id is a custom model it is removed from the catalog and the active
\* model becomes 'gpt-5-mini' if it was id, and is unchanged otherwise
\* (the storage write succeeding).
C9_DeleteModelRemovesCustomOnly ==
  (last.op = "deleteModel" /\ last.writeOk) =>
    IF last.id \in BuiltinIds
    THEN last.result = "throw:Cannot delete default model" /\ file = last.pre
    ELSE (last.id \in Ids(Catalog(last.pre, last.preDefaults))) =>
           /\ last.result = "true"
           /\ last.id \notin Ids(Catalog(file, DEFAULT_MODELS))
           /\ getActiveModel(file, DEFAULT_MODELS) =
                IF getActiveModel(last.pre, last.preDefaults) = last.id
                THEN FallbackModel
                ELSE getActiveModel(last.pre, last.preDefaults)

\* the handled requests that changed the record for provider p
KeyWrites(p) ==
  {i \in 1..Len(log) : /\ log[i].req.op \in {"saveApiKey", "deleteApiKey"}
                       /\ log[i].req.provider = p
                       /\ log[i].result = "true"}

\* the handled requests that changed the catalog entry x
ModelWrites(x) ==
  {i \in 1..Len(log) : /\ log[i].req.op \in {"addModel", "deleteModel"}
                       /\ log[i].req.id = x
                       /\ log[i].result = "true"}

ActiveWrites ==
  {i \in 1..Len(log) : log[i].req.op = "setActiveModel" /\ log[i].result = "true"}

Latest(S) == CHOOSE i \in S : \A j \in S : j <= i

\* the record and the array after the handled requests are applied one at
\* a time, in the order of the log, to the store found at start-up
RECURSIVE Replay(_)
Replay(k) ==
  IF k = 0 THEN Outcome(boot, DefaultModelsLiteral, "")
  ELSE LET b == Replay(k - 1)
       IN Dispatch(b.file, b.defaults, log[k].req, log[k].iv, log[k].writeOk)

\* C10: however concurrently issued registry requests interleave, the
\* persisted record is the one a serial execution (in the order the
\* handlers ran) produces, every request got the result it gets in that
\* serial execution, and no saved key, added model or selected active model
\* is lost to a later request that did not touch it.
C10_MutationsSerialized ==
  /\ file = Replay(Len(log)).file
  /\ \A k \in 1..Len(log) : log[k].result = Replay(k).result
  /\ \A p \in {"openai", "foo"} :
       KeyWrites(p) # {} =>
         LET w == log[Latest(KeyWrites(p))]
         IN getApiKey(file, DEFAULT_MODELS, p) = w.req.apiKey
  /\ \A x \in {"custom-a", "custom-b"} :
       ModelWrites(x) # {} =>
         LET w == log[Latest(ModelWrites(x))]
         IN (w.req.op = "addModel") => (x \in Ids(PersistedModels(file)))
  /\ ActiveWrites # {} =>
       LET m == Latest(ActiveWrites)
           a == log[m].req.id
       IN (\A j \in ModelWrites(a) : j < m \/ log[j].req.op = "addModel")
            => file.activeModel = a

\* two requests in flight together, handled in the opposite order of their
\* arrival, both persisted
C10_Witness ==
  \E i, j \in 1..Len(log) :
    /\ i < j /\ log[i].n > log[j].n
    /\ log[i].result = "true" /\ log[j].result = "true"
    /\ log[i].req.op = "saveApiKey" /\ log[j].req.op = "addModel"
    /\ pending = {}
    /\ getApiKey(file, DEFAULT_MODELS, log[i].req.provider) = log[i].req.apiKey
    /\ log[j].req.id \in Ids(PersistedModels(file))

(***************************************************************************)
(* Vocabulary of the key claims.                                           *)
(***************************************************************************)
\* the providers whose keys the behaviours read and write
KeyProviders == (ProviderInputs \cup {"xai"}) \ {""}

\* the last step was a call of one of the key mutations for provider p
KeyCallOn(p) ==
  last.op \in {"saveApiKey", "deleteApiKey"} /\ last.provider = p

\* C11: saveApiKey with an empty provider or an empty key throws and leaves
\* the file as it was; with both present it succeeds whenever the write does,
\* and after a successful save getApiKey of that provider is the key just
\* saved; every step that is not a saveApiKey or deleteApiKey for a provider
\* (calls for other providers, model calls, reads, a restart) leaves that
\* provider's getApiKey as it was, so the saved key is returned until the
\* next saveApiKey or deleteApiKey for the provider.
C11_SavedKeyIsReturnedUntilNextKeyCall ==
  /\ (last.op = "saveApiKey" /\ (last.provider = "" \/ last.apiKey = ""))
       => /\ last.result = "throw:Provider and API key are required"
          /\ file = last.pre
  /\ (last.op = "saveApiKey" /\ last.provider # "" /\ last.apiKey # "")
       => /\ last.writeOk => last.result = "true"
          /\ last.result = "true"
               => getApiKey(file, DEFAULT_MODELS, last.provider) = last.apiKey
  /\ \A p \in KeyProviders :
       (last.op # "none" /\ ~KeyCallOn(p))
         => getApiKey(file, DEFAULT_MODELS, p)
              = getApiKey(last.pre, last.preDefaults, p)

\* a key saved earlier for openai is still returned after a successful
\* model call, while another provider holds a different key
C11_Witness ==
  /\ last.op = "addModel" /\ last.result = "true"
  /\ getApiKey(file, DEFAULT_MODELS, "openai") = "sk-B"
  /\ getApiKey(file, DEFAULT_MODELS, "foo") = "sk-A"


\* the keys object of the persisted record; empty when there is none
StoredKeys(f) == IF f.exists /\ f.readable /\ f.hasKeys THEN f.keys ELSE NoKeys

\* the bytes the three hex fields of a bundle decode to
Bytes(bundle) ==
  [iv |-> FromHex(bundle.iv), authTag |-> FromHex(bundle.authTag),
   encrypted |-> FromHex(bundle.encrypted)]

\* a stored string is genuine when it parses and carries the bytes encrypt
\* produces for some text under the master key of the running process
Genuine(str) ==
  /\ str.wellFormed
  /\ \E text \in ApiKeyInputs, iv \in 0..(CipherModulus - 1) :
       Bytes(str.bundle) = Bytes(encrypt(text, DEFAULT_MASTER_KEY, iv))

\* C12: getApiKey returns null (and does not throw) for a provider with no
\* stored ciphertext and for a provider whose stored ciphertext cannot be
\* decrypted (tag of another ciphertext, another master key, a wrapper that
\* does not parse); a getApiKey call leaves the persisted record as it was.
C12_UndecryptableKeyReadsAsNull ==
  /\ \A p \in KeyProviders :
       (p \notin DOMAIN StoredKeys(file) \/ ~Genuine(StoredKeys(file)[p]))
         => getApiKey(file, DEFAULT_MODELS, p) = ""
  /\ last.op = "getApiKey"
       => /\ file = last.pre
          /\ last.result = getApiKey(file, DEFAULT_MODELS, last.provider)

\* getApiKey has just returned null for a stored wrapper that does not
\* parse, in a record that also holds a wrong-key and a bad-tag bundle
C12_Witness ==
  /\ last.op = "getApiKey" /\ last.provider = "foo" /\ last.result = ""
  /\ DOMAIN StoredKeys(file) = {"openai", "xai", "foo"}
  /\ StoredKeys(file)["foo"] = CorruptWrapper
  /\ StoredKeys(file)["xai"] = BadTagBundle
  /\ StoredKeys(file)["openai"] = WrongKeyBundle


\* C13: deleteApiKey never throws; for a provider with no stored key it
\* returns true and leaves the persisted record as it was (so a repeated
\* delete changes nothing); after any deleteApiKey getApiKey of that
\* provider is null; and the stored keys of every other provider, the
\* catalog and the active model are what they were before the call.
C13_DeleteApiKeyIdempotentAndFramed ==
  last.op = "deleteApiKey"
    => /\ last.result \in {"true", "false"}
       /\ last.provider \notin DOMAIN StoredKeys(last.pre)
            => (last.result = "true" /\ file = last.pre)
       /\ getApiKey(file, DEFAULT_MODELS, last.provider) = ""
       /\ \A q \in KeyProviders \ {last.provider} :
            /\ q \in DOMAIN StoredKeys(file) <=> q \in DOMAIN StoredKeys(last.pre)
            /\ q \in DOMAIN StoredKeys(file)
                 => StoredKeys(file)[q] = StoredKeys(last.pre)[q]
       /\ Catalog(file, DEFAULT_MODELS) = Catalog(last.pre, last.preDefaults)
       /\ getActiveModel(file, DEFAULT_MODELS)
            = getActiveModel(last.pre, last.preDefaults)


\* the record with every stored ciphertext replaced by one fixed string
Scrubbed(f) ==
  [f EXCEPT !.keys = [p \in DOMAIN f.keys |-> CorruptWrapper]]

\* C14: in every state the value getAllKeys returns has the four fields
\* models, activeModel, hasKeys and providerKeys; providerKeys holds one
\* boolean for each of openai, anthropic, google and xai, true exactly when
\* a ciphertext is stored for that provider; and the whole value is the same
\* as for the record with every ciphertext replaced by a fixed string, so
\* it carries neither plaintext nor ciphertext.
C14_GetAllKeysHidesKeyMaterial ==
  LET view == getAllKeys(file, DEFAULT_MODELS)
  IN /\ DOMAIN view = {"models", "activeModel", "hasKeys", "providerKeys"}
     /\ DOMAIN view.providerKeys = {"openai", "anthropic", "google", "xai"}
     /\ \A p \in DOMAIN view.providerKeys :
          /\ view.providerKeys[p] \in BOOLEAN
          /\ view.providerKeys[p] <=> p \in DOMAIN StoredKeys(file)
     /\ view = getAllKeys(Scrubbed(file), DEFAULT_MODELS)

\* keys have been saved for a known and for an unknown provider, and the
\* flag of the known one is set
C14_Witness ==
  /\ last.op = "saveApiKey" /\ last.result = "true"
  /\ getApiKey(file, DEFAULT_MODELS, "openai") = "sk-A"
  /\ getApiKey(file, DEFAULT_MODELS, "foo") = "sk-B"
  /\ getAllKeys(file, DEFAULT_MODELS).providerKeys["openai"]


(***************************************************************************)
(* The vault claims.                                                       *)
(***************************************************************************)
\* C15: for every text and master key, decrypt applied under the same
\* master key to what encrypt returned gives the text back, and so does
\* decryptFromStorage applied to what encryptForStorage returned.
C15_VaultRoundTrip ==
  (calc.fn = "decrypt" /\ calc.tamper = "none"
     /\ calc.usedKey = calc.masterKey)
    => (calc.out.ok /\ calc.out.text = calc.text)

\* a key was stored under the second master key with encryptForStorage and
\* read back with decryptFromStorage
C15_Witness ==
  /\ calc.fn = "decrypt" /\ calc.tamper = "none" /\ calc.wrapped
  /\ calc.masterKey = DEFAULT_MASTER_KEY + 1
  /\ calc.usedKey = calc.masterKey
  /\ calc.text = "sk-B" /\ calc.out.text = "sk-B"

\* the stored tag or ciphertext text is not what encrypt produced
StoredTextDiffers ==
  \/ BundleOf(calc.held, calc.wrapped).authTag
       # BundleOf(calc.made, calc.wrapped).authTag
  \/ BundleOf(calc.held, calc.wrapped).encrypted
       # BundleOf(calc.made, calc.wrapped).encrypted

\* the stored tag or ciphertext decodes to other bytes than encrypt produced
StoredBytesDiffer ==
  \/ Bytes(BundleOf(calc.held, calc.wrapped)).authTag
       # Bytes(BundleOf(calc.made, calc.wrapped)).authTag
  \/ Bytes(BundleOf(calc.held, calc.wrapped)).encrypted
       # Bytes(BundleOf(calc.made, calc.wrapped)).encrypted

C17_GetSafeModelAllowListOrDefault ==
  (calc.fn = "getSafeModel"
     /\ calc.input.kind \in {"string", "undefined", "null"})
    => /\ ~calc.out.threw
       /\ calc.out.value
            = (IF calc.input.text \in {"gpt-4o-mini", "gpt-4o", "gpt-4-turbo",
                                       "gpt-4", "gpt-3.5-turbo"}
               THEN calc.input.text ELSE "gpt-4o-mini")
       /\ calc.out.value \in {"gpt-4o-mini", "gpt-4o", "gpt-4-turbo",
                              "gpt-4", "gpt-3.5-turbo"}

\* getSafeModel has mapped gpt-5-mini to the default
C17_Witness ==
  /\ calc.fn = "getSafeModel"
  /\ calc.input = Text("gpt-5-mini")
  /\ calc.out = Returned("gpt-4o-mini")

\* C18: supportsJsonMode returns false for gpt-4 and gpt-4-0314 and true for
\* gpt-4o and gpt-4-1106-preview; the base names gpt-4 and gpt-3.5-turbo
\* without a version, in any letter case, are reported as not supporting
\* structured output, while the allow-listed gpt-4o, gpt-4o-mini,
\* gpt-4-turbo and gpt-4-turbo-preview are reported as supporting it.
C18_JsonModeOfBaseAndListedNames ==
  (calc.fn = "supportsJsonMode" /\ calc.input.kind = "string")
    => /\ calc.input.text \in {"gpt-4", "gpt-4-0314", "gpt-3.5-turbo", "GPT-4"}
            => calc.out = Returned(FALSE)
       /\ calc.input.text \in {"gpt-4o", "gpt-4-1106-preview", "gpt-4o-mini",
                               "gpt-4-turbo", "gpt-4-turbo-preview",
                               " GPT-4O "}
            => calc.out = Returned(TRUE)

\* supportsJsonMode has answered false for gpt-4-0314
C18_Witness ==
  /\ calc.fn = "supportsJsonMode"
  /\ calc.input = Text("gpt-4-0314")
  /\ calc.out = Returned(FALSE)

\* C19: getSafeModel and supportsJsonMode return a result without throwing
\* for every value a request body can carry as the model: a string, the
\* empty string, null, undefined, and values of other types.
C19_ResolverNeverThrows ==
  calc.fn \in {"getSafeModel", "supportsJsonMode"} => ~calc.out.threw

\* the dated revisions released as 1106 (November 2023) or later, and the
\* ones released before
RevisionsFrom1106 ==
  {"gpt-4-1106-preview", "gpt-4-0125-preview",
   "gpt-3.5-turbo-1106", "gpt-3.5-turbo-0125"}

RevisionsBefore1106 ==
  {"gpt-4-0314", "gpt-4-0613", "gpt-3.5-turbo-0301", "gpt-3.5-turbo-0613"}

\* C20: for the dated revisions of gpt-4 and gpt-3.5-turbo, supportsJsonMode
\* returns true for revision 1106 and every revision released later (0125),
\* and false for every revision released earlier (0301, 0314, 0613).
C20_VersionCutover ==
  (calc.fn = "supportsJsonMode" /\ calc.input.kind = "string")
    => /\ calc.input.text \in RevisionsFrom1106 => calc.out = Returned(TRUE)
       /\ calc.input.text \in RevisionsBefore1106 => calc.out = Returned(FALSE)


(***************************************************************************)
(* The template rendering claims.                                          *)
(***************************************************************************)
\* the value the handler substitutes for a known placeholder
ValueOf(placeholder, san) ==
  IF placeholder = "{objective}"
  THEN OrDefault(san.objective, <<"not-specified">>)
  ELSE san.answer

\* one pass over the template: every known placeholder of the template
\* becomes its value, taken literally, and nothing else changes
RECURSIVE SinglePass(_, _)
SinglePass(template, san) ==
  IF template = <<>> THEN <<>>
  ELSE (IF Head(template) \in {"{objective}", "{answer}"}
        THEN ValueOf(Head(template), san) ELSE <<Head(template)>>)
         \o SinglePass(Tail(template), san)

\* number of occurrences of a token
RECURSIVE Count(_, _)
Count(toks, tok) ==
  IF toks = <<>> THEN 0
  ELSE (IF Head(toks) = tok THEN 1 ELSE 0) + Count(Tail(toks), tok)

\* a value without placeholder tokens and replacement patterns
Plain(value) ==
  \A i \in 1..Len(value) : value[i] \notin {"{objective}", "{answer}", "$&"}

\* C21: for every template and every caller values, the rendered prompt is
\* the template with each placeholder replaced once by its value, the value
\* taken literally: a placeholder token or a replacement pattern inside a
\* value appears as it is and is not expanded.
C21_SubstitutedTextIsNotRescanned ==
  calc.fn = "render" => calc.out = SinglePass(calc.template, calc.san)

\* C22: with plain values, no occurrence of a known placeholder is left in
\* the rendered prompt (every occurrence was replaced, not only the first),
\* each occurrence became the handler's value, and a placeholder the
\* handler has no value for ({topic}) is still there as often as before.
C22_EveryOccurrenceReplaced ==
  (calc.fn = "render"
     /\ Plain(calc.san.objective) /\ Plain(calc.san.answer))
    => /\ Count(calc.out, "{objective}") = 0
       /\ Count(calc.out, "{answer}") = 0
       /\ Count(calc.out, "{topic}") = Count(calc.template, "{topic}")
       /\ calc.out = SinglePass(calc.template, calc.san)

\* a template with two occurrences of {objective} and an unknown {topic}
\* has been rendered with plain values
C22_Witness ==
  /\ calc.fn = "render"
  /\ calc.template = <<"probe", "{objective}", "{answer}", "{objective}",
                       "{topic}">>
  /\ calc.san = [objective |-> <<"study">>, answer |-> <<"study">>]
  /\ calc.out = <<"probe", "study", "study", "study", "{topic}">>


\* the text the strict parse gives for the question: result.question or
\* one of the alternative fields, when it is a string
StrictQuestion(reply) ==
  IF reply.json = "object" /\ reply.question.kind = "string"
       /\ reply.question.toks # <<>>
  THEN reply.question.toks
  ELSE IF reply.json = "object" /\ ~Truthy(reply.question)
            /\ reply.altText.kind = "string"
       THEN reply.altText.toks
       ELSE <<>>

\* the extractor matches in the order they are tried: those of the catch
\* block when the strict parse failed, then the question patterns
ExtractorMatches(reply) ==
  (IF reply.json = "fail" THEN CatchExtractors(reply.text) ELSE <<>>)
    \o questionPatterns(reply.text)

\* the untrimmed matches one after another, as the code walks them: the
\* catch block's pick first, then the first match of the patterns
RecoveredQuestion(reply) ==
  LET caught == IF reply.json = "fail"
                THEN ReplyTrim(FirstMatch(CatchExtractors(reply.text)))
                ELSE <<>>
  IN IF caught # <<>> THEN caught
     ELSE ReplyTrim(FirstMatch(questionPatterns(reply.text)))

\* toks occurs in text as a contiguous piece
OccursIn(toks, text) ==
  \E i \in 1..Len(text) :
    i + Len(toks) - 1 <= Len(text)
      /\ SubSeq(text, i, i + Len(toks) - 1) = toks

\* C24: in first-question generation, a question the strict parse yields
\* is the answer; otherwise the extractors are applied in their order and
\* the first match supplies the question (the reply
\* question: "What motivates your choice?" gives exactly that text); a
\* success carries a non-empty, trimmed question taken from the reply, and
\* when nothing yields non-empty text the response is an error.
C24_FirstQuestionRecovery ==
  calc.fn = "firstQuestion"
    => LET reply == calc.reply
           out == calc.out
           strict == ReplyTrim(StrictQuestion(reply))
       IN /\ strict # <<>> => out.success /\ out.question = strict
          /\ (strict = <<>> /\ out.success)
               => out.question = RecoveredQuestion(reply)
          /\ reply.text = <<"question", ":", " ", DQ, ExampleText, DQ>>
               => out.success /\ out.question = <<ExampleText>>
          /\ out.success
               => /\ out.status = 200
                  /\ out.question # <<>>
                  /\ ReplyTrim(out.question) = out.question
                  /\ OccursIn(out.question, reply.text)
          /\ (strict = <<>>
                /\ \A i \in 1..Len(ExtractorMatches(reply)) :
                     ReplyTrim(ExtractorMatches(reply)[i]) = <<>>)
               => ~out.success
          /\ ~out.success => out.status = 500 /\ out.error # ""

\* the reply question: "What motivates your choice?" has been answered
\* with that question
C24_Witness ==
  /\ calc.fn = "firstQuestion"
  /\ calc.reply.json = "fail"
  /\ calc.reply.text = <<"question", ":", " ", DQ, ExampleText, DQ>>
  /\ calc.out.success
  /\ calc.out.question = <<ExampleText>>

(***************************************************************************)
(* The orchestrator claims.                                                *)
(***************************************************************************)
\* the settings lookup of the turn has settled without a probing template:
\* it threw, returned no row, or returned a row with an empty template
NoTemplateFound ==
  /\ turn.settingsLookups = 1
  /\ turn.pc \in {"awaitLLM", "done"}
  /\ (turn.settings.throws \/ ~turn.settings.row
        \/ turn.settings.interviewPrompt = <<>>)

\* C23: when the request carries no custom prompt and the settings lookup
\* fails or returns no template, the turn ends with the 400 response 'No
\* prompt template available. Please configure AI prompts ...' and the LLM
\* client has not been called.
C23_MissingTemplateIsHardError ==
  NoTemplateFound
    => /\ turn.san.customPrompt = <<>>
       /\ turn.pc = "done"
       /\ turn.res.status = 400
       /\ turn.res.error = "No prompt template available"
       /\ ~turn.res.success
       /\ turn.llmCalls = 0

\* the settings lookup threw and the turn ended with the 400 response
C23_Witness ==
  /\ turn.pc = "done"
  /\ turn.settingsLookups = 1
  /\ turn.settings.throws
  /\ turn.res.status = 400
  /\ turn.llmCalls = 0

\* the model has replied to the turn with a next action that asks for a
\* question
QuestionExpected ==
  /\ turn.pc = "done"
  /\ turn.llmCalls = 1
  /\ turn.reply.throws = ""
  /\ turn.reply.parsed = "object"
  /\ ~turn.reply.noContent
  /\ turn.reply.hasNext
  /\ turn.reply.type \in {"probe", "next_question"}

\* C25: when the next action of the reply has type probe or next_question,
\* the turn is answered with success only if the action's question is a
\* text that is not empty after trimming; otherwise the response is an
\* error.
C25_QuestionRequiredForProbe ==
  QuestionExpected
    => IF turn.reply.question.kind = "string"
            /\ Trim(turn.reply.question.toks) # <<>>
       THEN turn.res.success /\ turn.res.question = turn.reply.question
       ELSE /\ ~turn.res.success
            /\ turn.res.status = 500
            /\ turn.res.error # ""

\* a probe whose question is blank has been answered with the 500 response
C25_Witness ==
  /\ QuestionExpected
  /\ turn.reply.type = "probe"
  /\ turn.reply.question = Str(<<" ">>)
  /\ turn.res.status = 500
  /\ turn.res.error = "AI did not generate a question"

\* C26: when the LLM client fails with status 401 the turn's response
\* carries the 'check your API key' message, when it fails with status 429
\* the 'try again later' message, and in neither case the provider's text.
C26_UpstreamFailuresAreTranslated ==
  (turn.pc = "done" /\ turn.llmCalls = 1 /\ turn.reply.throws # "")
    => /\ turn.res.message # turn.reply.throws
       /\ turn.reply.throws = "401 Incorrect API key"
            => turn.res.message = CheckYourApiKey
       /\ turn.reply.throws = "429 Rate limit"
            => turn.res.message = TryAgainLater

\* C27: analyze-objective calls the LLM client only with a non-empty
\* objective in the prompt; a request whose objective is missing, blank, or
\* empty after sanitization is answered with the 400 validation response
\* and the LLM client is not called.
C27_ObjectiveAnalysisNeedsObjective ==
  calc.fn = "analyzeObjective"
    => /\ calc.out.llmCalls > 0 => calc.out.objective # <<>>
       /\ sanitizeString(calc.body.objective) = <<>>
            => /\ calc.out.res.status = 400
               /\ calc.out.res.error = "Validation failed"
               /\ calc.out.llmCalls = 0

\* the last call was a registry mutation whose write to durable storage
\* failed
WriteFailed ==
  /\ last.op \in {"saveApiKey", "deleteApiKey", "setActiveModel", "addModel",
                  "deleteModel"}
  /\ ~last.writeOk
  /\ last.result \in {"false", "throw:Failed to save keys database"}

\* C28: a registry mutation whose write fails ends by throwing to its
\* caller, and its route does not answer with success.
C28_FailedWriteIsAnError ==
  WriteFailed
    => /\ last.result = "throw:Failed to save keys database"
       /\ ~RouteResponse(last.result).success

\* hasKeys of getAllKeys is true exactly when one of its provider flags is
KeysMatchFlags(f, defaults) ==
  LET view == getAllKeys(f, defaults)
  IN view.hasKeys <=> \E p \in DOMAIN view.providerKeys : view.providerKeys[p]

\* C29: saveApiKey and deleteApiKey with a non-empty provider keep hasKeys
\* true exactly when a provider flag of getAllKeys is true: a call made in
\* a state where the two agree leaves a state where they agree.
C29_HasKeysIffSomeProviderFlag ==
  (/\ last.op \in {"saveApiKey", "deleteApiKey"}
   /\ last.provider # ""
   /\ KeysMatchFlags(last.pre, last.preDefaults))
    => KeysMatchFlags(file, DEFAULT_MODELS)

\* C30: a summarize request whose body carries a transcript array calls the
\* LLM client exactly once, and when that call succeeds the response is a
\* success that holds the summary and the model that was used.
C30_SummarizeCallsModelOnce ==
  (calc.fn = "summarize" /\ calc.body.transcript \in {"empty array", "array"})
    => /\ calc.out.llmCalls = 1
       /\ ~calc.reply.throws
            => /\ calc.out.res.success
               /\ calc.out.res.summary # ""
               /\ calc.out.res.model # ""


====
